---- MODULE Spec2Model ----
(***************************************************************************)
(* The tick-driven execution core of OpenWarIO: the scheduler that inits,  *)
(* ticks and reaps Executions, and the Research, TransportPlane, Admin and *)
(* Airport executions with the player, unit and map state they mutate.     *)
(***************************************************************************)
EXTENDS Integers, Sequences, FiniteSets, TLC

\* ------------------------------------------------------------------ bounds
\* Executions constructed in one run.
MaxExecs == 2
\* Last tick number the driver passes to the scheduler in the full game.
MaxTick == 6
\* The research-only game runs ResearchSlack ticks longer than the first two
\* researches of the tree take.
ResearchSlack == 2
\* External events (intents, eliminations) arrive in the first IntentWindow
\* ticks of every IntentPeriod ticks (IntentPeriod: the shortest research).
IntentWindow == 2
\* Entries of the array passed to calculateCombinedBonuses.
MaxCompleted == 3

Players == {1, 2, 3, 4}
\* TerraNullius: the owner of unclaimed tiles; not a Player.
TerraNullius == 0
\* null / undefined of a numeric field
Null == -1
\* null of a ResearchType field
NoResearch == "none"
\* Messages followed in each direction of one WebSocket relay
MaxMessages == 3

\* Public games the lobby scheduler generates an ID for
MaxGames == 2
\* Clients that join one public lobby
MaxClients == 1
\* fetchLobbies: a lobby that starts within this many ms is dropped
StartingSoonMs == 250

\* Calls of loadTerrainMap in one run
MaxLoads == 3

\* Events and calls the settings modal receives in one run
MaxModalCalls == 4

\* A value that is no ResearchType of the build
InvalidResearch == "invalid"

\* Gold a player may hold when the game starts being observed.
GoldLevels == {400000, 1500000}

VARIABLES
    revision,        \* which revision of the sources the build holds
    ticks,           \* Game: number of the next tick
    pc,              \* scheduler position: "idle", "init", "tick"
    idx,             \* scheduler: index into execs of the next call
    unInitExecs,     \* Game: executions registered, not yet initialised
    execs,           \* Game: the active set, in registration order
    terminated,      \* executions the last pass removed from the active set
    nextId,          \* executions constructed so far
    gold,            \* Player.gold()
    troops,          \* Player.troops()
    alive,           \* Player.isAlive()
    researches,      \* PlayerImpl._researches
    currentResearch, \* PlayerImpl._currentResearch
    owner,           \* map ownership, tile -> Player or TerraNullius
    units,           \* all units ever built, by id (deleted ones inactive)
    messages,        \* displayMessage / displayIncomingUnit events
    raised,          \* an init or tick call has thrown to the scheduler
    completedResearches, \* argument of a calculateCombinedBonuses call
    combined,        \* what the last calculateCombinedBonuses call returned
    flight,          \* a calculatePath call: its arguments and its result
    clientWs,        \* relay: readyState of the socket to the client
    workerWs,        \* relay: readyState of the socket to the worker
    workerConnected, \* relay: the worker socket has opened
    pendingMessages, \* relay: client messages held back for the worker
    received,        \* client messages the relay received, in arrival order
    sent,            \* arguments of the calls of workerWs.send, in order
    delivered,       \* arguments of the calls of clientWs.send, in order
    server,          \* lobbies: "Master" (workers) or "Single" (one process)
    publicLobbyIDs,  \* lobbies: the set publicLobbyIDs
    publicLobbiesData, \* lobbies: the lobby infos last broadcast
    generated,       \* lobbies: IDs generateID has returned so far
    pollPc,          \* lobbies: position of the polling loop
    snapshot,        \* lobbies: the IDs the running fetchLobbies asks for
    games,           \* lobbies: the games the workers' GameManager holds
    creating,        \* lobbies: IDs whose create_game request is in flight
    fetched,         \* lobbies: what the last fetchLobbies got for each ID
    lobbies,         \* lobbies: what the last fetchLobbies returned
    hasJoined,       \* game connection: this connection has joined a game
    gameWs,          \* game connection: readyState of its socket
    closeCode,       \* game connection: code of the handler's ws.close call
    joinedGames,     \* game connection: games joinClient/rejoinClient found
    inbox,           \* game connection: the messages received, in order
    loadedMaps,      \* terrain: the module's cache, GameMapType -> data
    manifests,       \* terrain: nation coordinate in each map's manifest
    loading,         \* terrain: calls past the cache test, not yet returned
    lastCall,        \* terrain: map and mapSize of the call that returned last
    lastData,        \* terrain: the TerrainMapData that call returned
    loads,           \* terrain: calls of loadTerrainMap so far
    isVisible,       \* settings modal: isVisible
    shouldPause,     \* settings modal: shouldPause
    wasPausedWhenOpened, \* settings modal: wasPausedWhenOpened
    emitted,         \* settings modal: the PauseGameIntentEvents emitted
    modalCalls       \* settings modal: events and calls received so far

sched == <<ticks, pc, idx, execs, terminated>>
world == <<unInitExecs, nextId, gold, troops, alive, researches,
           currentResearch, owner, units, messages, raised>>
\* The parts followed apart from the game.
relay == <<clientWs, workerWs, workerConnected, pendingMessages, received,
           sent, delivered>>
lobby == <<server, publicLobbyIDs, publicLobbiesData, generated, pollPc,
           snapshot, games, creating, fetched, lobbies>>
conn == <<hasJoined, gameWs, closeCode, joinedGames, inbox>>
terrains == <<loadedMaps, manifests, loading, lastCall, lastData, loads>>
modal == <<isVisible, shouldPause, wasPausedWhenOpened, emitted, modalCalls>>
apart == <<flight, relay, lobby, conn, terrains, modal>>
calc == <<completedResearches, combined, apart>>
vars == <<revision, sched, world, calc>>

Min(a, b) == IF a <= b THEN a ELSE b

Range(s) == {s[i] : i \in 1 .. Len(s)}

\* ------------------------------------------ number (IEEE 754 binary64)
\* A positive normal double is its 53-bit significand, as four limbs of 14
\* bits with the least significant first, and its exponent: the value is
\* significand * 2^(e - 52).
Limb == 2^14

\* The doubles the literals of RESEARCH_DEFINITIONS denote, by hundredths.
DoubleOfHundredths(n) ==
    CASE n = 100 -> [m |-> <<0, 0, 0, 1024>>, e |-> 0]            \* 0x10000000000000
      [] n = 105 -> [m |-> <<3277, 13107, 3276, 1075>>, e |-> 0]  \* 0x10cccccccccccd
      [] n = 110 -> [m |-> <<6554, 9830, 6553, 1126>>, e |-> 0]   \* 0x1199999999999a
      [] n = 115 -> [m |-> <<9830, 6553, 9830, 1177>>, e |-> 0]   \* 0x12666666666666
      [] n = 120 -> [m |-> <<13107, 3276, 13107, 1228>>, e |-> 0] \* 0x13333333333333
      [] n = 125 -> [m |-> <<0, 0, 0, 1280>>, e |-> 0]            \* 0x14000000000000
      [] n = 130 -> [m |-> <<3277, 13107, 3276, 1331>>, e |-> 0]  \* 0x14cccccccccccd

\* Column k (from 0) of the schoolbook product of two significands.
ProductColumn(a, b, k) ==
    LET term(i) == IF k - i >= 0 /\ k - i <= 3
                   THEN a[i + 1] * b[k - i + 1]
                   ELSE 0
    IN  term(0) + term(1) + term(2) + term(3)

\* The carry into column k.
RECURSIVE ProductCarry(_, _, _)
ProductCarry(a, b, k) ==
    IF k = 0
    THEN 0
    ELSE (ProductColumn(a, b, k - 1) + ProductCarry(a, b, k - 1)) \div Limb

\* The exact 106-bit product of two significands, as eight limbs.
ExactProduct(a, b) ==
    [k \in 1 .. 8 |->
        (ProductColumn(a, b, k - 1) + ProductCarry(a, b, k - 1)) % Limb]

\* A significand plus one unit in the last place.
RECURSIVE Successor(_, _)
Successor(m, i) ==
    IF i > Len(m)
    THEN m
    ELSE IF m[i] + 1 < Limb
    THEN [m EXCEPT ![i] = @ + 1]
    ELSE Successor([m EXCEPT ![i] = 0], i + 1)

\* The value of an expression, computed once: TLC evaluates the members of
\* an enumerated set before it binds them.
Once(S) == CHOOSE v \in S : TRUE

\* The exact product P with exponent e, rounded to 53 bits, ties to even.
RoundProduct(P, e) ==
    LET big == P[8] >= 2^7                      \* the product is >= 2^105
        sh == IF big THEN 11 ELSE 10            \* it loses 42 + sh bits
        half == 2^(sh - 1)
        restLow == P[1] # 0 \/ P[2] # 0 \/ P[3] # 0
    IN  Once({ IF r[4] >= 2^11
               THEN [m |-> <<0, 0, 0, 2^10>>,
                     e |-> e + (IF big THEN 2 ELSE 1)]
               ELSE [m |-> r, e |-> e + (IF big THEN 1 ELSE 0)] :
               r \in { IF \/ P[4] % 2^sh > half
                          \/ P[4] % 2^sh = half /\ (restLow \/ q[1] % 2 = 1)
                       THEN Successor(q, 1)
                       ELSE q :
                       q \in { [i \in 1 .. 4 |->
                                  (P[i + 3] \div 2^sh)
                                + (P[i + 4] % 2^sh) * 2^(14 - sh)] } } })

\* x * y on two double values.
FloatMulValues(x, y) ==
    Once({ RoundProduct(P, x.e + y.e) : P \in { ExactProduct(x.m, y.m) } })

\* a * b on doubles.
FloatMul(a, b) == Once({ FloatMulValues(x, y) : x \in {a}, y \in {b} })

\* ------------------------------------------------- core/game/Research.ts
\* ResearchType of the two-step tree.
ResearchTypeV1 == {"InfantryImprovements", "BetterTech"}

\* ResearchType of the eight-step tree, 1 -> 2 -> ... -> 8.
ResearchTypeV2 ==
    {"BasicTrainingDoctrine", "AdvancedFirearms", "BodyArmorMk1",
     "TacticalAssaultTraining", "HeavyBodyArmor", "CombatMedicIntegration",
     "EliteInfantryDoctrine", "SpecialForcesProgram"}

\* RESEARCH_DEFINITIONS of the two-step tree: cost, durationTicks,
\* prerequisites, bonuses (the fields the definition gives a value).
RESEARCH_DEFINITIONS_V1 ==
    [t \in ResearchTypeV1 |->
        IF t = "InfantryImprovements"
        THEN [cost |-> 500000, durationTicks |-> 30 * 10, prerequisites |-> {},
              order |-> 1, bonuses |-> <<>>]
        ELSE [cost |-> 1000000, durationTicks |-> 60 * 10,
              prerequisites |-> {"InfantryImprovements"}, order |-> 2,
              bonuses |-> [attackBonus |-> DoubleOfHundredths(120)]]]

\* RESEARCH_DEFINITIONS of the eight-step tree.
RESEARCH_DEFINITIONS_V2 ==
    [t \in ResearchTypeV2 |->
        CASE t = "BasicTrainingDoctrine" ->
               [cost |-> 150000, durationTicks |-> 150 * 10,
                prerequisites |-> {}, order |-> 1,
                bonuses |-> [attackBonus |-> DoubleOfHundredths(105)]]
          [] t = "AdvancedFirearms" ->
               [cost |-> 200000, durationTicks |-> 180 * 10,
                prerequisites |-> {"BasicTrainingDoctrine"}, order |-> 2,
                bonuses |-> [attackBonus |-> DoubleOfHundredths(110)]]
          [] t = "BodyArmorMk1" ->
               [cost |-> 225000, durationTicks |-> 180 * 10,
                prerequisites |-> {"AdvancedFirearms"}, order |-> 3,
                bonuses |-> [damageReduction |-> 5]]
          [] t = "TacticalAssaultTraining" ->
               [cost |-> 325000, durationTicks |-> 270 * 10,
                prerequisites |-> {"BodyArmorMk1"}, order |-> 4,
                bonuses |-> [attackBonus |-> DoubleOfHundredths(115)]]
          [] t = "HeavyBodyArmor" ->
               [cost |-> 385000, durationTicks |-> 270 * 10,
                prerequisites |-> {"TacticalAssaultTraining"}, order |-> 5,
                bonuses |-> [damageReduction |-> 10]]
          [] t = "CombatMedicIntegration" ->
               [cost |-> 452000, durationTicks |-> 270 * 10,
                prerequisites |-> {"HeavyBodyArmor"}, order |-> 6,
                bonuses |-> [healthBonus |-> DoubleOfHundredths(120)]]
          [] t = "EliteInfantryDoctrine" ->
               [cost |-> 950000, durationTicks |-> 300 * 10,
                prerequisites |-> {"CombatMedicIntegration"}, order |-> 7,
                bonuses |-> [attackBonus |-> DoubleOfHundredths(120),
                            damageReduction |-> 5]]
          [] OTHER ->
               [cost |-> 3500000, durationTicks |-> 390 * 10,
                prerequisites |-> {"EliteInfantryDoctrine"}, order |-> 8,
                bonuses |-> [attackBonus |-> DoubleOfHundredths(125),
                            damageReduction |-> 15,
                            healthBonus |-> DoubleOfHundredths(130)]]]

\* The research types of the build's revision.
ResearchType == IF revision = 1 THEN ResearchTypeV1 ELSE ResearchTypeV2

getResearchDefinition(type) ==
    IF type \in ResearchTypeV1
    THEN RESEARCH_DEFINITIONS_V1[type]
    ELSE RESEARCH_DEFINITIONS_V2[type]

\* The shortest research of the revision's tree.
IntentPeriod ==
    CHOOSE d \in {getResearchDefinition(type).durationTicks : type \in ResearchType} :
        \A type \in ResearchType : d <= getResearchDefinition(type).durationTicks

\* The time the first two researches of the tree take, and the slack.
ResearchMaxTick ==
    LET first == CHOOSE type \in ResearchType :
                     getResearchDefinition(type).order = 1
        second == CHOOSE type \in ResearchType :
                     getResearchDefinition(type).order = 2
    IN  getResearchDefinition(first).durationTicks
      + getResearchDefinition(second).durationTicks + ResearchSlack

\* One step of the loop of calculateCombinedBonuses in the two-step tree:
\* a type without a definition is skipped, a bonus the definition gives
\* multiplies the combined one.
CombineV1(acc, researchType) ==
    IF researchType \notin ResearchTypeV1
    THEN acc
    ELSE LET bonuses == RESEARCH_DEFINITIONS_V1[researchType].bonuses
             Mul(f) == IF f \in DOMAIN bonuses
                       THEN FloatMul(acc[f], bonuses[f])
                       ELSE acc[f]
         IN  [attackBonus |-> Mul("attackBonus"),
              defenseBonus |-> Mul("defenseBonus"),
              troopProductionBonus |-> Mul("troopProductionBonus"),
              goldProductionBonus |-> Mul("goldProductionBonus"),
              buildSpeedBonus |-> Mul("buildSpeedBonus")]

\* The same step in the eight-step tree: healthBonus multiplies too, and
\* damageReduction adds.
CombineV2(acc, researchType) ==
    IF researchType \notin ResearchTypeV2
    THEN acc
    ELSE LET bonuses == RESEARCH_DEFINITIONS_V2[researchType].bonuses
             Mul(f) == IF f \in DOMAIN bonuses
                       THEN FloatMul(acc[f], bonuses[f])
                       ELSE acc[f]
         IN  [attackBonus |-> Mul("attackBonus"),
              damageReduction |->
                  IF "damageReduction" \in DOMAIN bonuses
                  THEN acc.damageReduction + bonuses.damageReduction
                  ELSE acc.damageReduction,
              healthBonus |-> Mul("healthBonus"),
              defenseBonus |-> Mul("defenseBonus"),
              troopProductionBonus |-> Mul("troopProductionBonus"),
              goldProductionBonus |-> Mul("goldProductionBonus"),
              buildSpeedBonus |-> Mul("buildSpeedBonus")]

\* The loop from entry i of the array on.
RECURSIVE CombineFrom(_, _, _)
CombineFrom(completed, i, acc) ==
    IF i > Len(completed)
    THEN acc
    ELSE CombineFrom(completed, i + 1,
             Once({ IF revision = 1
                    THEN CombineV1(c, completed[i])
                    ELSE CombineV2(c, completed[i]) : c \in {acc} }))

\* calculateCombinedBonuses of the two-step tree: five multipliers, 1.0 each.
calculateCombinedBonusesV1(completed) ==
    CombineFrom(completed, 1,
        [attackBonus |-> DoubleOfHundredths(100),
         defenseBonus |-> DoubleOfHundredths(100),
         troopProductionBonus |-> DoubleOfHundredths(100),
         goldProductionBonus |-> DoubleOfHundredths(100),
         buildSpeedBonus |-> DoubleOfHundredths(100)])

\* A loop that goes through the array twice.
calculateCombinedBonusesTwice(completed) ==
    CombineFrom(completed \o completed, 1,
        [attackBonus |-> DoubleOfHundredths(100),
         damageReduction |-> 0,
         healthBonus |-> DoubleOfHundredths(100),
         defenseBonus |-> DoubleOfHundredths(100),
         troopProductionBonus |-> DoubleOfHundredths(100),
         goldProductionBonus |-> DoubleOfHundredths(100),
         buildSpeedBonus |-> DoubleOfHundredths(100)])

\* calculateCombinedBonuses of the eight-step tree: six multipliers, 1.0
\* each, and damageReduction, 0.
calculateCombinedBonusesV2(completed) ==
    CombineFrom(completed, 1,
        [attackBonus |-> DoubleOfHundredths(100),
         damageReduction |-> 0,
         healthBonus |-> DoubleOfHundredths(100),
         defenseBonus |-> DoubleOfHundredths(100),
         troopProductionBonus |-> DoubleOfHundredths(100),
         goldProductionBonus |-> DoubleOfHundredths(100),
         buildSpeedBonus |-> DoubleOfHundredths(100)])

calculateCombinedBonuses(completed) ==
    IF revision = 1
    THEN calculateCombinedBonusesV1(completed)
    ELSE calculateCombinedBonusesV2(completed)

\* No calculateCombinedBonuses call has returned yet.
NotCalculated == [calculated |-> FALSE]

\* No calculatePath call is followed.
NoFlight == [computed |-> FALSE, src |-> Null, dst |-> Null]

\* ResearchState of a type never started.
NotStarted == [completed |-> FALSE, startedAt |-> Null, completedAt |-> Null]

\* --------------------------------------------------------- the game state
\* The state a handler reads and writes, as one record.
G ==
    [unInitExecs |-> unInitExecs, nextId |-> nextId, gold |-> gold,
     troops |-> troops, alive |-> alive, researches |-> researches,
     currentResearch |-> currentResearch, owner |-> owner, units |-> units,
     messages |-> messages, raised |-> raised]

\* The handler's result becomes the game state.
Install(g) ==
    /\ unInitExecs' = g.unInitExecs
    /\ nextId' = g.nextId
    /\ gold' = g.gold
    /\ troops' = g.troops
    /\ alive' = g.alive
    /\ researches' = g.researches
    /\ currentResearch' = g.currentResearch
    /\ owner' = g.owner
    /\ units' = g.units
    /\ messages' = g.messages
    /\ raised' = g.raised

\* An execution as constructed: active = true, every other field unset.
NewExecution(kind, player) ==
    [troops |-> 0, researchType |-> NoResearch, src |-> Null, dst |-> Null,
     kind |-> kind, player |-> player, active |-> TRUE,
     completionTick |-> Null, dstTile |-> Null, lastMove |-> Null,
     target |-> Null, plane |-> Null, pathTiles |-> <<>>, pathIndex |-> 0,
     action |-> "", amount |-> Null, hasAmount |-> FALSE,
     amountIsInteger |-> TRUE, airport |-> Null, initCalls |-> 0]

\* ------------------------------------------------ PlayerImpl (research)
hasResearch(g, p, type) == g.researches[p][type].completed

\* canStartResearch without the prerequisite test.
canStartResearchAnyOrder(g, p, type) ==
    /\ ~g.researches[p][type].completed
    /\ g.currentResearch[p] = NoResearch
    /\ g.gold[p] >= getResearchDefinition(type).cost

\* PlayerImpl.canStartResearch: not completed, nothing in progress, every
\* prerequisite completed, gold >= cost.
canStartResearch(g, p, type) ==
    /\ ~hasResearch(g, p, type)
    /\ g.currentResearch[p] = NoResearch
    /\ \A q \in getResearchDefinition(type).prerequisites :
           hasResearch(g, p, q)
    /\ g.gold[p] >= getResearchDefinition(type).cost

\* PlayerImpl.startResearch: deducts the cost and records the research in
\* progress; returns false without effect when it cannot start.
startResearch(g, p, type, t) ==
    IF ~canStartResearch(g, p, type)
    THEN [g |-> g, ok |-> FALSE]
    ELSE [g |-> [g EXCEPT
                   !.gold[p] = @ - getResearchDefinition(type).cost,
                   !.researches[p][type] =
                       [completed |-> FALSE, startedAt |-> t,
                        completedAt |-> Null],
                   !.currentResearch[p] = type],
          ok |-> TRUE]

\* PlayerImpl.completeResearch: marks the research in progress completed
\* and clears it.
completeResearch(g, p, t) ==
    IF g.currentResearch[p] = NoResearch
    THEN g
    ELSE [g EXCEPT
            !.researches[p][g.currentResearch[p]] =
                [@ EXCEPT !.completed = TRUE, !.completedAt = t],
            !.currentResearch[p] = NoResearch]

\* ---------------------------------------------------- ResearchExecution
Deactivated(e) == [e EXCEPT !.active = FALSE]

\* ResearchExecution.init with both rejections ignored: the completion tick is
\* set whatever canStartResearch and startResearch answered.
ResearchInitUnchecked(e, g, t) ==
    LET started == startResearch(g, e.player, e.researchType, t)
    IN  [e |-> [e EXCEPT !.completionTick =
                   t + getResearchDefinition(e.researchType).durationTicks],
         g |-> started.g]

\* ResearchExecution.init that forgets to deactivate on a rejection.
ResearchInitRejectionKeptActive(e, g, t) ==
    IF ~canStartResearch(g, e.player, e.researchType)
    THEN [e |-> e, g |-> g]
    ELSE LET started == startResearch(g, e.player, e.researchType, t)
         IN  IF ~started.ok
             THEN [e |-> e, g |-> g]
             ELSE [e |-> [e EXCEPT !.completionTick =
                            t + getResearchDefinition(e.researchType).durationTicks],
                   g |-> started.g]

\* ResearchExecution.init
ResearchInit(e, g, t) ==
    IF ~canStartResearch(g, e.player, e.researchType)
    THEN [e |-> Deactivated(e), g |-> g]
    ELSE LET started == startResearch(g, e.player, e.researchType, t)
         IN  IF ~started.ok
             THEN [e |-> Deactivated(e), g |-> g]
             ELSE [e |-> [e EXCEPT !.completionTick =
                            t + getResearchDefinition(e.researchType).durationTicks],
                   g |-> started.g]

\* ResearchExecution.tick that charges the cost again when it completes.
ResearchTickChargingAtCompletion(e, g, t) ==
    IF ~e.active \/ e.completionTick = Null
    THEN [e |-> e, g |-> g]
    ELSE IF ~g.alive[e.player]
    THEN [e |-> Deactivated(e), g |-> g]
    ELSE IF t >= e.completionTick
    THEN [e |-> Deactivated(e),
          g |-> [completeResearch(g, e.player, t) EXCEPT
                   !.gold[e.player] =
                       @ - getResearchDefinition(e.researchType).cost]]
    ELSE [e |-> e, g |-> g]

\* ResearchExecution.tick comparing with > instead of >=.
ResearchTickLate(e, g, t) ==
    IF ~e.active \/ e.completionTick = Null
    THEN [e |-> e, g |-> g]
    ELSE IF ~g.alive[e.player]
    THEN [e |-> Deactivated(e), g |-> g]
    ELSE IF t > e.completionTick
    THEN [e |-> Deactivated(e), g |-> completeResearch(g, e.player, t)]
    ELSE [e |-> e, g |-> g]

\* ResearchExecution.tick testing completion before the player's death.
ResearchTickCompletingDead(e, g, t) ==
    IF ~e.active \/ e.completionTick = Null
    THEN [e |-> e, g |-> g]
    ELSE IF t >= e.completionTick
    THEN [e |-> Deactivated(e), g |-> completeResearch(g, e.player, t)]
    ELSE IF ~g.alive[e.player]
    THEN [e |-> Deactivated(e), g |-> g]
    ELSE [e |-> e, g |-> g]

\* ResearchExecution.tick with the active flag recomputed from the player's
\* liveness on every call instead of only being cleared.
ResearchTickReactivating(e, g, t) ==
    LET e0 == [e EXCEPT !.active = g.alive[e.player]]
    IN  IF ~e0.active \/ e0.completionTick = Null
        THEN [e |-> e0, g |-> g]
        ELSE IF t >= e0.completionTick
        THEN [e |-> Deactivated(e0), g |-> completeResearch(g, e0.player, t)]
        ELSE [e |-> e0, g |-> g]

\* ResearchExecution.tick
ResearchTick(e, g, t) ==
    IF ~e.active \/ e.completionTick = Null
    THEN [e |-> e, g |-> g]
    ELSE IF ~g.alive[e.player]
    THEN [e |-> Deactivated(e), g |-> g]
    ELSE IF t >= e.completionTick
    THEN [e |-> Deactivated(e), g |-> completeResearch(g, e.player, t)]
    ELSE [e |-> e, g |-> g]

\* -------------------------------------------------------------- GameMap
MapWidth == 7
MapHeight == 3

Tiles == 0 .. (MapWidth * MapHeight - 1)

isValidRef(ref) == ref \in Tiles
isValidCoord(x, y) == x >= 0 /\ x < MapWidth /\ y >= 0 /\ y < MapHeight
MapRef(x, y) == y * MapWidth + x
MapX(ref) == ref % MapWidth
MapY(ref) == ref \div MapWidth

\* Terrain of the loaded map: column 4 is water, every other tile is land.
isLand(ref) == MapX(ref) # 4

\* Ownership when the game starts being observed: columns 0-1 player 1,
\* column 2 player 2, column 5 player 3, column 6 player 4, the rest
\* unclaimed.
InitialOwner(ref) ==
    CASE MapX(ref) \in {0, 1} -> 1
      [] MapX(ref) = 2 -> 2
      [] MapX(ref) = 5 -> 3
      [] MapX(ref) = 6 -> 4
      [] OTHER -> TerraNullius

\* ------------------------------------------ Player relations (PlayerImpl)
\* Players 1 and 2 form a team; players 3 and 4 play alone.
TeamOf(p) == IF p \in {1, 2} THEN 1 ELSE p

isPlayer(o) == o \in Players
isOnSameTeam(a, b) == TeamOf(a) = TeamOf(b)
\* Player 4 cannot be attacked (allied with everyone).
canAttackPlayer(a, b) == b # 4 /\ a # b

\* Player.addTroops
addTroops(g, p, n) == [g EXCEPT !.troops[p] = @ + n]

\* Player.conquer
conquer(g, p, tile) == [g EXCEPT !.owner[tile] = p]

\* Player.units(type): the player's live units of the type, in build order.
UnitsOf(g, p, type) ==
    SelectSeq([i \in 1 .. Len(g.units) |-> i],
              LAMBDA i : /\ g.units[i].active
                         /\ g.units[i].owner = p
                         /\ g.units[i].type = type)

NewUnit(type, p, tile, construction, carried, target, source) ==
    [troops |-> carried, owner |-> p, type |-> type, active |-> TRUE,
     tile |-> tile, underConstruction |-> construction,
     targetTile |-> target, sourceTile |-> source]

\* Player.buildUnit: the new unit's id is its place in units.
buildUnit(g, u) == [g EXCEPT !.units = Append(@, u)]

\* Unit.delete
deleteUnit(g, id) == [g EXCEPT !.units[id].active = FALSE]

\* Unit.move
moveUnit(g, id, tile) == [g EXCEPT !.units[id].tile = tile]

\* Game.displayMessage / Game.displayIncomingUnit
displayMessage(g, key, p) ==
    [g EXCEPT !.messages = Append(@, [player |-> p, key |-> key])]

\* Game.addExecution: queued for the next tick boundary.
addExecution(g, e) ==
    [g EXCEPT !.unInitExecs = Append(@, e), !.nextId = @ + 1]

\* ------------------------------------------------ TransportPlaneExecution
ticksPerMove == 2

\* Squared straight-line distance between two tiles.
Dist2(a, b) ==
    (MapX(a) - MapX(b)) * (MapX(a) - MapX(b))
  + (MapY(a) - MapY(b)) * (MapY(a) - MapY(b))

\* Math.ceil(Math.sqrt(d2) / 3)
Steps(d2) ==
    CHOOSE n \in 0 .. d2 :
        /\ 9 * n * n >= d2
        /\ n = 0 \/ 9 * (n - 1) * (n - 1) < d2

\* Math.round(a + (b - a) * i / steps), halves rounded up.
Lerp(a, b, i, steps) ==
    (2 * (a * steps + (b - a) * i) + steps) \div (2 * steps)

\* calculatePath without its closing `tiles.push(dst)`.
calculatePathOfStepsOnly(src, dst) ==
    LET steps == Steps(Dist2(src, dst))
        pts == [i \in 1 .. steps |->
                  <<Lerp(MapX(src), MapX(dst), i, steps),
                    Lerp(MapY(src), MapY(dst), i, steps)>>]
        ok == SelectSeq(pts, LAMBDA p : isValidCoord(p[1], p[2]))
    IN  [i \in 1 .. Len(ok) |-> MapRef(ok[i][1], ok[i][2])]

\* TransportPlaneExecution.calculatePath
calculatePath(src, dst) ==
    LET steps == Steps(Dist2(src, dst))
        pts == [i \in 1 .. steps |->
                  <<Lerp(MapX(src), MapX(dst), i, steps),
                    Lerp(MapY(src), MapY(dst), i, steps)>>]
        ok == SelectSeq(pts, LAMBDA p : isValidCoord(p[1], p[2]))
        tiles == [i \in 1 .. Len(ok) |-> MapRef(ok[i][1], ok[i][2])]
    IN  IF Len(tiles) = 0 \/ tiles[Len(tiles)] # dst
        THEN Append(tiles, dst)
        ELSE tiles

\* The search with <= for <: the last of the nearest airports.
RECURSIVE ClosestFromLast(_, _, _, _, _)
ClosestFromLast(g, airports, dst, i, best) ==
    IF i > Len(airports)
    THEN best
    ELSE LET a == airports[i]
         IN  IF g.units[a].underConstruction
             THEN ClosestFromLast(g, airports, dst, i + 1, best)
             ELSE IF best = Null
                     \/ Dist2(dst, g.units[a].tile)
                          <= Dist2(dst, g.units[best].tile)
             THEN ClosestFromLast(g, airports, dst, i + 1, a)
             ELSE ClosestFromLast(g, airports, dst, i + 1, best)

\* The airport init picks: the first of the attacker's airports that is not
\* under construction and is strictly closer than every one before it.
RECURSIVE ClosestFrom(_, _, _, _, _)
ClosestFrom(g, airports, dst, i, best) ==
    IF i > Len(airports)
    THEN best
    ELSE LET a == airports[i]
         IN  IF g.units[a].underConstruction
             THEN ClosestFrom(g, airports, dst, i + 1, best)
             ELSE IF best = Null
                     \/ Dist2(dst, g.units[a].tile)
                          < Dist2(dst, g.units[best].tile)
             THEN ClosestFrom(g, airports, dst, i + 1, a)
             ELSE ClosestFrom(g, airports, dst, i + 1, best)

\* The commitment without the limit: the troops asked for.
CommittedTroopsUnlimited(requested, pool) == requested

\* The troops init commits: Math.min(this.troops, this.attacker.troops()).
CommittedTroops(requested, pool) == Min(requested, pool)

\* The reservation left out: the pool keeps the committed troops.
ReserveNothing(g, p, n) == g

\* The troops init reserves: this.attacker.addTroops(-this.troops).
ReserveTroops(g, p, n) == addTroops(g, p, -n)

\* TransportPlaneExecution.init reserving the troops before it looks for an
\* airport and at the target.
TransportInitReservingFirst(e, g, t) ==
    IF ~isValidRef(e.dstTile)
    THEN [e |-> Deactivated(e), g |-> g]
    ELSE
    LET target == g.owner[e.dstTile]
        committed == CommittedTroops(e.troops, g.troops[e.player])
        e1 == [e EXCEPT !.lastMove = t, !.target = target,
                        !.troops = committed]
        g1 == ReserveTroops(g, e.player, committed)
        airports == UnitsOf(g, e.player, "Airport")
        closestAirport == ClosestFrom(g, airports, e.dstTile, 1, Null)
    IN  IF committed <= 0
        THEN [e |-> Deactivated(e1), g |-> g]
        ELSE IF Len(airports) = 0
        THEN [e |-> Deactivated(e1),
              g |-> displayMessage(g1, "events_display.no_airport", e.player)]
        ELSE IF isPlayer(target)
                /\ (isOnSameTeam(e.player, target)
                      \/ ~canAttackPlayer(e.player, target))
        THEN [e |-> Deactivated(e1), g |-> g1]
        ELSE IF closestAirport = Null
        THEN [e |-> Deactivated(e1), g |-> g1]
        ELSE
        LET src == g.units[closestAirport].tile
            g2 == buildUnit(g1, NewUnit("TransportPlane", e.player, src,
                                        FALSE, committed, e.dstTile, src))
            g3 == IF isPlayer(target)
                  THEN displayMessage(g2, "incoming_airdrop", target)
                  ELSE g2
        IN  [e |-> [e1 EXCEPT !.src = src, !.dst = e.dstTile,
                              !.pathTiles = calculatePath(src, e.dstTile),
                              !.plane = Len(g2.units)],
             g |-> g3]

\* TransportPlaneExecution.init
TransportInit(e, g, t) ==
    IF ~isValidRef(e.dstTile)
    THEN [e |-> Deactivated(e), g |-> g]
    ELSE
    LET target == g.owner[e.dstTile]
        e1 == [e EXCEPT !.lastMove = t, !.target = target]
        airports == UnitsOf(g, e.player, "Airport")
        closestAirport == ClosestFrom(g, airports, e.dstTile, 1, Null)
    IN  IF Len(airports) = 0
        THEN [e |-> Deactivated(e1),
              g |-> displayMessage(g, "events_display.no_airport", e.player)]
        ELSE IF isPlayer(target) /\ isOnSameTeam(e.player, target)
        THEN [e |-> Deactivated(e1), g |-> g]
        ELSE IF isPlayer(target) /\ ~canAttackPlayer(e.player, target)
        THEN [e |-> Deactivated(e1), g |-> g]
        ELSE IF closestAirport = Null
        THEN [e |-> Deactivated(e1), g |-> g]
        ELSE
        LET src == g.units[closestAirport].tile
            committed == CommittedTroops(e.troops, g.troops[e.player])
            e2 == [e1 EXCEPT !.src = src, !.dst = e.dstTile,
                             !.troops = committed]
        IN  IF committed <= 0
            THEN [e |-> Deactivated(e2), g |-> g]
            ELSE
            LET g1 == ReserveTroops(g, e.player, committed)
                g2 == buildUnit(g1, NewUnit("TransportPlane", e.player, src,
                                            FALSE, committed, e.dstTile, src))
                g3 == IF isPlayer(target)
                      THEN displayMessage(g2, "incoming_airdrop", target)
                      ELSE g2
            IN  [e |-> [e2 EXCEPT !.pathTiles = calculatePath(src, e.dstTile),
                                  !.plane = Len(g2.units)],
                 g |-> g3]

\* The AttackExecution of a landing seeded with one troop more than the plane
\* carried.
LandingAttackReinforced(attacker, carried, targetId, dst) ==
    [NewExecution("Attack", attacker)
       EXCEPT !.troops = carried + 1, !.target = targetId, !.dstTile = dst]

\* The AttackExecution a landing constructs:
\* new AttackExecution(troops, attacker, targetId, dst, false).
LandingAttack(attacker, carried, targetId, dst) ==
    [NewExecution("Attack", attacker)
       EXCEPT !.troops = carried, !.target = targetId, !.dstTile = dst]

\* TransportPlaneExecution.landTroops, older revision: decided by the owner
\* init recorded in this.target; no test of the terrain.
landTroopsV1(e, g) ==
    LET carried == g.units[e.plane].troops
        g1 == deleteUnit(g, e.plane)
        g2 == conquer(g1, e.player, e.dst)
    IN  IF isPlayer(e.target)
        THEN [e |-> Deactivated(e),
              g |-> displayMessage(
                      addExecution(g2,
                        LandingAttack(e.player, carried, e.target, e.dst)),
                      "events_display.paratrooper_landed", e.player)]
        ELSE [e |-> Deactivated(e), g |-> addTroops(g2, e.player, carried)]

\* landTroops of the newer revision returning from a water landing without
\* `this.active = false`.
landTroopsOnWaterStayingActive(e, g) ==
    LET carried == g.units[e.plane].troops
        g1 == deleteUnit(g, e.plane)
        currentOwner == g1.owner[e.dst]
    IN  IF ~isLand(e.dst)
        THEN [e |-> e, g |-> g1]
        ELSE
        LET g2 == conquer(g1, e.player, e.dst)
        IN  IF isPlayer(currentOwner) /\ ~isOnSameTeam(e.player, currentOwner)
            THEN [e |-> Deactivated(e),
                  g |-> displayMessage(
                          addExecution(g2,
                            LandingAttack(e.player, carried, currentOwner,
                                          e.dst)),
                          "events_display.paratrooper_landed", e.player)]
            ELSE [e |-> Deactivated(e), g |-> addTroops(g2, e.player, carried)]

\* TransportPlaneExecution.landTroops, newer revision: decided by the owner
\* of the destination when the plane lands; water is not conquered.
landTroopsV2(e, g) ==
    LET carried == g.units[e.plane].troops
        g1 == deleteUnit(g, e.plane)
        currentOwner == g1.owner[e.dst]
    IN  IF ~isLand(e.dst)
        THEN [e |-> Deactivated(e), g |-> g1]
        ELSE
        LET g2 == conquer(g1, e.player, e.dst)
        IN  IF isPlayer(currentOwner) /\ ~isOnSameTeam(e.player, currentOwner)
            THEN [e |-> Deactivated(e),
                  g |-> displayMessage(
                          addExecution(g2,
                            LandingAttack(e.player, carried, currentOwner,
                                          e.dst)),
                          "events_display.paratrooper_landed", e.player)]
            ELSE [e |-> Deactivated(e), g |-> addTroops(g2, e.player, carried)]

\* TransportPlaneExecution.landTroops of the build's revision.
landTroops(e, g) ==
    IF revision = 1 THEN landTroopsV1(e, g) ELSE landTroopsV2(e, g)

\* TransportPlaneExecution.tick waiting one tick between moves.
TransportTickEveryTick(e, g, t) ==
    IF ~e.active
    THEN [e |-> e, g |-> g]
    ELSE IF ~g.units[e.plane].active
    THEN [e |-> Deactivated(e), g |-> g]
    ELSE IF t - e.lastMove < 1
    THEN [e |-> e, g |-> g]
    ELSE
    LET moving == e.pathIndex < Len(e.pathTiles)
        g1 == IF moving
              THEN moveUnit(g, e.plane, e.pathTiles[e.pathIndex + 1])
              ELSE g
        e1 == [e EXCEPT !.lastMove = t,
                        !.pathIndex = IF moving THEN @ + 1 ELSE @]
    IN  IF e1.pathIndex >= Len(e1.pathTiles)
        THEN landTroops(e1, g1)
        ELSE [e |-> e1, g |-> g1]

\* TransportPlaneExecution.tick giving the carried troops back when the
\* plane is gone.
TransportTickReturningTroops(e, g, t) ==
    IF ~e.active
    THEN [e |-> e, g |-> g]
    ELSE IF ~g.units[e.plane].active
    THEN [e |-> Deactivated(e),
          g |-> addTroops(g, e.player, g.units[e.plane].troops)]
    ELSE IF t - e.lastMove < ticksPerMove
    THEN [e |-> e, g |-> g]
    ELSE
    LET moving == e.pathIndex < Len(e.pathTiles)
        g1 == IF moving
              THEN moveUnit(g, e.plane, e.pathTiles[e.pathIndex + 1])
              ELSE g
        e1 == [e EXCEPT !.lastMove = t,
                        !.pathIndex = IF moving THEN @ + 1 ELSE @]
    IN  IF e1.pathIndex >= Len(e1.pathTiles)
        THEN landTroops(e1, g1)
        ELSE [e |-> e1, g |-> g1]

\* TransportPlaneExecution.tick
TransportTick(e, g, t) ==
    IF ~e.active
    THEN [e |-> e, g |-> g]
    ELSE IF ~g.units[e.plane].active
    THEN [e |-> Deactivated(e), g |-> g]
    ELSE IF t - e.lastMove < ticksPerMove
    THEN [e |-> e, g |-> g]
    ELSE
    LET moving == e.pathIndex < Len(e.pathTiles)
        g1 == IF moving
              THEN moveUnit(g, e.plane, e.pathTiles[e.pathIndex + 1])
              ELSE g
        e1 == [e EXCEPT !.lastMove = t,
                        !.pathIndex = IF moving THEN @ + 1 ELSE @]
    IN  IF e1.pathIndex >= Len(e1.pathTiles)
        THEN landTroops(e1, g1)
        ELSE [e |-> e1, g |-> g1]

\* -------------------------------------------------------- AdminExecution
\* config.maxTroops(player)
MaxTroopsConfig == 6

\* `typeof researchType === "number"` for a member of Object.values(
\* ResearchType): the enum's members are strings in both revisions.
TypeofIsNumber(type) == type \notin (ResearchTypeV1 \cup ResearchTypeV2)

\* The research types the unlock_research loop marks completed.
UnlockedTypes == {type \in ResearchType : TypeofIsNumber(type)}

\* AdminExecution.tick, case "unlock_research"
UnlockResearch(g, p, t) ==
    [g EXCEPT
       !.researches[p] =
           [type \in DOMAIN @ |->
               IF type \in UnlockedTypes /\ ~@[type].completed
               THEN [completed |-> TRUE, startedAt |-> t, completedAt |-> t]
               ELSE @[type]],
       !.currentResearch[p] = NoResearch]

\* add_troops without the cap at config.maxTroops(player).
AdminAddTroopsUncapped(g, p, amount) ==
    LET currentTroops == g.troops[p]
        toAdd == IF amount = -1
                 THEN MaxTroopsConfig - currentTroops
                 ELSE amount
    IN  IF toAdd > 0 THEN addTroops(g, p, toAdd) ELSE g

\* AdminExecution.tick, case "add_troops"
AdminAddTroops(g, p, amount) ==
    LET currentTroops == g.troops[p]
        toAdd == IF amount = -1
                 THEN MaxTroopsConfig - currentTroops
                 ELSE Min(amount, MaxTroopsConfig - currentTroops)
    IN  IF toAdd > 0 THEN addTroops(g, p, toAdd) ELSE g

\* The command of an AdminExecution applied to the game.
AdminApply(e, g, t) ==
    CASE e.action = "unlock_research" -> UnlockResearch(g, e.player, t)
      [] e.action = "add_gold" /\ e.hasAmount ->
           [g EXCEPT !.gold[e.player] = @ + e.amount]
      [] e.action = "add_troops" /\ e.hasAmount ->
           AdminAddTroops(g, e.player, e.amount)
      [] OTHER -> g

\* BigInt(this.amount) of add_gold throws a RangeError when the amount is
\* not an integer.
AdminThrows(e) ==
    e.action = "add_gold" /\ e.hasAmount /\ ~e.amountIsInteger

\* The error leaves tick before `this.active = false` and reaches the caller.
AdminRaise(e, g) == [e |-> e, g |-> [g EXCEPT !.raised = TRUE]]

\* AdminExecution.tick without its `if (!this.active) return`.
AdminTickUnguarded(e, g, t) ==
    IF AdminThrows(e)
    THEN AdminRaise(e, g)
    ELSE [e |-> Deactivated(e), g |-> AdminApply(e, g, t)]

\* AdminExecution.tick
AdminTick(e, g, t) ==
    IF ~e.active
    THEN [e |-> e, g |-> g]
    ELSE IF AdminThrows(e)
    THEN AdminRaise(e, g)
    ELSE [e |-> Deactivated(e), g |-> AdminApply(e, g, t)]

\* AdminExecution.init, AirportExecution.init: only keep the game.
KeepGameInit(e, g, t) == [e |-> e, g |-> g]

\* ------------------------------------------------------ AirportExecution
\* AirportExecution.tick
AirportTick(e, g, t) ==
    IF ~g.units[e.airport].active
    THEN [e |-> Deactivated(e), g |-> g]
    ELSE [e |-> e, g |-> g]

\* ------------------------------------------------------- AttackExecution
\* The attack a landing queues; its resolution is outside these sources and
\* it is kept as an attack in progress.
AttackInit(e, g, t) == [e |-> e, g |-> g]
AttackTick(e, g, t) == [e |-> e, g |-> g]

\* ------------------------------------------------------------- dispatch
\* Execution.init
ExecInit(e, g, t) ==
    CASE e.kind = "Research" -> ResearchInit(e, g, t)
      [] e.kind = "Transport" -> TransportInit(e, g, t)
      [] e.kind = "Attack" -> AttackInit(e, g, t)
      [] OTHER -> KeepGameInit(e, g, t)

\* Execution.tick
ExecTick(e, g, t) ==
    CASE e.kind = "Research" -> ResearchTick(e, g, t)
      [] e.kind = "Transport" -> TransportTick(e, g, t)
      [] e.kind = "Admin" -> AdminTick(e, g, t)
      [] e.kind = "Airport" -> AirportTick(e, g, t)
      [] OTHER -> AttackTick(e, g, t)

\* ------------------------------------------------------- Game scheduler
\* Step (1) calling init on every member of the active set again.
BeginTickReinitAll(limit) ==
    /\ pc = "idle"
    /\ ticks <= limit
    /\ execs' = execs \o unInitExecs
    /\ unInitExecs' = <<>>
    /\ IF Len(unInitExecs) > 0
       THEN pc' = "init" /\ idx' = 1
       ELSE pc' = "tick" /\ idx' = 1
    /\ UNCHANGED <<revision, ticks, terminated, nextId, gold, troops, alive,
                   researches, currentResearch, owner, units, messages,
                   raised, calc>>

\* Game.tick, step (1): the queued executions join the active set; init is
\* called on each of them in registration order.
BeginTick(limit) ==
    /\ pc = "idle"
    /\ ticks <= limit
    /\ execs' = execs \o unInitExecs
    /\ unInitExecs' = <<>>
    /\ IF Len(unInitExecs) > 0
       THEN pc' = "init" /\ idx' = Len(execs) + 1
       ELSE pc' = "tick" /\ idx' = 1
    /\ UNCHANGED <<revision, ticks, terminated, nextId, gold, troops, alive,
                   researches, currentResearch, owner, units, messages,
                   raised, calc>>

\* One init call of step (1).
InitCall(kind) ==
    /\ pc = "init"
    /\ idx <= Len(execs)
    /\ execs[idx].kind = kind
    /\ LET r == ExecInit(execs[idx], G, ticks)
       IN  /\ execs' = [execs EXCEPT ![idx] =
                                   [r.e EXCEPT !.initCalls = @ + 1]]
           /\ Install(r.g)
    /\ IF idx = Len(execs)
       THEN pc' = "tick" /\ idx' = 1
       ELSE pc' = pc /\ idx' = idx + 1
    /\ UNCHANGED <<revision, ticks, terminated, calc>>

\* One tick call of step (2): every member of the active set, in
\* registration order.
TickCall(kind) ==
    /\ pc = "tick"
    /\ idx <= Len(execs)
    /\ execs[idx].kind = kind
    /\ LET r == ExecTick(execs[idx], G, ticks)
       IN  /\ execs' = [execs EXCEPT ![idx] = r.e]
           /\ Install(r.g)
    /\ idx' = idx + 1
    /\ UNCHANGED <<revision, ticks, pc, terminated, calc>>

ResearchInitStep == InitCall("Research")
TransportInitStep == InitCall("Transport")
AdminInitStep == InitCall("Admin")
AirportInitStep == InitCall("Airport")
AttackInitStep == InitCall("Attack")

ResearchTickStep == TickCall("Research")
TransportTickStep == TickCall("Transport")
AdminTickStep == TickCall("Admin")
AirportTickStep == TickCall("Airport")
AttackTickStep == TickCall("Attack")

\* Game.tick, step (3): executions whose active flag is false leave the
\* active set; the tick number advances.
EndTick ==
    /\ pc = "tick"
    /\ idx > Len(execs)
    /\ execs' = SelectSeq(execs, LAMBDA e : e.active)
    /\ LET removed == {execs[i] : i \in {j \in 1 .. Len(execs) : ~execs[j].active}}
       IN  terminated' = removed
    /\ ticks' = ticks + 1
    /\ pc' = "idle"
    /\ idx' = 1
    /\ UNCHANGED <<revision, world, calc>>

\* --------------------------------------------------------- environment
\* Intents and eliminations reach the game between ticks.
EventWindow == pc = "idle" /\ ticks % IntentPeriod < IntentWindow

\* Game.addExecution called for an intent.
Register(e) ==
    /\ EventWindow
    /\ nextId <= MaxExecs
    /\ unInitExecs' = Append(unInitExecs, e)
    /\ nextId' = nextId + 1
    /\ UNCHANGED <<revision, sched, gold, troops, alive, researches,
                   currentResearch, owner, units, messages, raised, calc>>

\* A research intent of player 1: new ResearchExecution(player, type).
ResearchIntent(types) ==
    \E type \in types :
        /\ alive[1]
        /\ Register([NewExecution("Research", 1)
                       EXCEPT !.researchType = type])

AddResearch == ResearchIntent(ResearchType)

\* The first two researches of the tree.
FirstResearches ==
    {type \in ResearchType : getResearchDefinition(type).order <= 2}

\* Destinations of an airdrop: no valid reference, and one tile of columns
\* 2 to 6 (teammate of player 1, unclaimed, water, player 3, player 4).
DstChoices == {Null} \cup {MapRef(x, MapHeight - 1) : x \in 2 .. 6}
\* Troops an airdrop asks for: none, fewer than the pool, more than the pool.
TroopChoices == {0, 2, 5}

\* Airdrops asked for: by player 1, any troops to player 3's tile, 2
\* troops to every other destination and 2 troops to the unclaimed tile of
\* row 1, as far from the airport of row 0 as from the airport of row 2; by
\* player 3, 2 troops to the unclaimed tile of the last row.
AirdropRequests ==
    ({1} \X {MapRef(5, MapHeight - 1)} \X TroopChoices)
        \cup ({1} \X DstChoices \X {2})
        \cup {<<1, MapRef(3, 1), 2>>}
        \cup {<<3, MapRef(3, MapHeight - 1), 2>>}

\* An airdrop intent: new TransportPlaneExecution(attacker, dstTile, troops).
AddTransport(requests) ==
    \E r \in requests :
        /\ alive[r[1]]
        /\ Register([NewExecution("Transport", r[1])
                       EXCEPT !.dstTile = r[2], !.troops = r[3]])

\* Commands of the admin: the action with its amount, or without one.
AdminCommands ==
    {<<"unlock_research", FALSE, Null>>, <<"add_gold", TRUE, 500000>>,
     <<"add_gold", FALSE, Null>>, <<"add_troops", TRUE, -1>>,
     <<"add_troops", TRUE, 2>>, <<"add_troops", FALSE, Null>>}

\* add_gold with the amount 0.5: a number that is no integer, kept as its
\* integer part and the flag amountIsInteger = FALSE.
FractionalCommands == {<<"add_gold", TRUE, 0>>}

\* An admin command: new AdminExecution(player, action, amount?).
AddAdmin ==
    \/ \E c \in AdminCommands :
           Register([NewExecution("Admin", 1)
                       EXCEPT !.action = c[1], !.hasAmount = c[2],
                              !.amount = c[3]])
    \/ \E c \in FractionalCommands :
           Register([NewExecution("Admin", 1)
                       EXCEPT !.action = c[1], !.hasAmount = c[2],
                              !.amount = c[3], !.amountIsInteger = FALSE])

\* Amounts of an add_troops command: negative, the fill-up mark -1, none,
\* fewer than the pool lacks to the maximum, more than it lacks.
TroopAmounts == {-3, -1, 0, 2, 5}

\* new AdminExecution(player, "add_troops", amount)
AddTroopsCommand ==
    \E amount \in TroopAmounts :
        Register([NewExecution("Admin", 1)
                    EXCEPT !.action = "add_troops", !.hasAmount = TRUE,
                           !.amount = amount])

\* The execution of an airport: new AirportExecution(airport).
AddAirport ==
    \E u \in 1 .. Len(units) :
        /\ units[u].type = "Airport"
        /\ units[u].active
        /\ \A i \in 1 .. Len(execs) : execs[i].airport # u
        /\ \A i \in 1 .. Len(unInitExecs) : unInitExecs[i].airport # u
        /\ Register([NewExecution("Airport", units[u].owner)
                       EXCEPT !.airport = u])

\* Player 1 is eliminated.
Eliminate ==
    /\ EventWindow
    /\ alive[1]
    /\ alive' = [alive EXCEPT ![1] = FALSE]
    /\ UNCHANGED <<revision, sched, unInitExecs, nextId, gold, troops,
                   researches, currentResearch, owner, units, messages,
                   raised, calc>>

\* A plane, or the first airport, is destroyed by play outside these
\* executions.
DestroyUnit ==
    \E u \in 1 .. Len(units) :
        /\ EventWindow
        /\ units[u].active
        /\ units[u].type = "TransportPlane" \/ u = 1
        /\ units' = [units EXCEPT ![u].active = FALSE]
        /\ UNCHANGED <<revision, sched, unInitExecs, nextId, gold, troops,
                       alive, researches, currentResearch, owner, messages,
                       raised, calc>>

\* An airport's construction finishes.
FinishConstruction ==
    \E u \in 1 .. Len(units) :
        /\ EventWindow
        /\ units[u].active
        /\ units[u].underConstruction
        /\ units' = [units EXCEPT ![u].underConstruction = FALSE]
        /\ UNCHANGED <<revision, sched, unInitExecs, nextId, gold, troops,
                       alive, researches, currentResearch, owner, messages,
                       raised, calc>>

\* ------------------------------------------------------------ initial state
Airport(p, tile, construction) ==
    NewUnit("Airport", p, tile, construction, 0, Null, Null)

\* Airports standing when the game starts being observed.
AirportLayouts ==
    { <<Airport(1, MapRef(1, 0), FALSE),
        Airport(1, MapRef(1, MapHeight - 1), TRUE),
        Airport(3, MapRef(5, 0), FALSE)>>,
      <<Airport(1, MapRef(1, MapHeight - 1), TRUE)>> }

InitialTroops == [p \in Players |-> IF p = 1 THEN 3 ELSE IF p = 3 THEN 2 ELSE 0]

InitGameWith(layouts, revisions, golds, pools) ==
    /\ revision \in revisions
    /\ ticks = 0
    /\ pc = "idle"
    /\ idx = 1
    /\ execs = <<>>
    /\ terminated = {}
    /\ units \in layouts
    /\ unInitExecs = <<>>
    /\ nextId = 1
    /\ \E g \in golds : gold = [p \in Players |-> g]
    /\ troops = pools
    /\ alive = [p \in Players |-> TRUE]
    /\ researches = [p \in Players |-> [type \in ResearchType |-> NotStarted]]
    /\ currentResearch = [p \in Players |-> NoResearch]
    /\ owner = [tile \in Tiles |-> InitialOwner(tile)]
    /\ messages = <<>>
    /\ raised = FALSE

InitGame(layouts, revisions, golds) ==
    InitGameWith(layouts, revisions, golds, InitialTroops)

\* The relay of one /w{N} upgrade as the handleUpgrade callback leaves it:
\* the client's socket accepted, the worker's socket created and connecting,
\* nothing received.
NewRelay ==
    /\ clientWs = "OPEN"
    /\ workerWs = "CONNECTING"
    /\ workerConnected = FALSE
    /\ pendingMessages = <<>>
    /\ received = <<>>
    /\ sent = <<>>
    /\ delivered = <<>>

\* IDs of public games, in the order generateID returns them.
GameIDs == 1 .. MaxGames

\* What a fetch of a game's info comes to: it is rejected, or answered with
\* the body of a 404 (none of the fields), or with the game's info. gameID
\* is the ID the answer names, not the ID asked for.
LobbyInfo(outcome, id, clients, limit, ms) ==
    [fetch |-> outcome, gameID |-> id, numClients |-> clients,
     maxPlayers |-> limit, msUntilStart |-> ms]

\* A game the GameManager holds: clients joined, gameConfig.maxPlayers and
\* the time left until it starts; NoGame where it holds none.
GameOf(clients, limit, ms) ==
    [numClients |-> clients, maxPlayers |-> limit, msUntilStart |-> ms]

NoGame == GameOf(Null, Null, Null)

\* No fetchLobbies call has returned yet.
NothingFetched == [id \in {} |-> Null]

\* The lobby scheduler when all workers are ready (or the single server has
\* started): no public lobby, the polling loop about to run its task.
NewLobby(servers) ==
    /\ server \in servers
    /\ publicLobbyIDs = {}
    /\ publicLobbiesData = {}
    /\ generated = 0
    /\ pollPc = "wait"
    /\ snapshot = {}
    /\ games = [id \in GameIDs |-> NoGame]
    /\ creating = {}
    /\ fetched = NothingFetched
    /\ lobbies = Null

\* A game connection of the single server as gameWss.on("connection")
\* leaves it.
NewConnection ==
    /\ hasJoined = FALSE
    /\ gameWs = "OPEN"
    /\ closeCode = Null
    /\ joinedGames = <<>>
    /\ inbox = <<>>

\* The maps and sizes loadTerrainMap is called for.
GameMapType == {"World", "Europe"}
GameMapSize == {"Normal", "Compact"}

\* A coordinate of a nation as the manifest files give it.
NationCoordinate == 5

\* TerrainMapData: nations is the array of the map's manifest itself, so it
\* is kept as the map whose manifest it belongs to; gameMap and miniGameMap
\* are kept as the manifest entry they were generated from.
TerrainMapData(map, full, mini) ==
    [nations |-> map, gameMap |-> full, miniGameMap |-> mini]

\* loadedMaps.get(map) is undefined.
NotLoaded == TerrainMapData("", "", "")

\* The module as loaded: an empty cache, no call yet.
NewTerrain ==
    /\ loadedMaps = [map \in GameMapType |-> NotLoaded]
    /\ manifests = [map \in GameMapType |-> NationCoordinate]
    /\ loading = {}
    /\ lastCall = <<>>
    /\ lastData = NotLoaded
    /\ loads = 0

\* The settings modal as constructed, init called.
NewModal ==
    /\ isVisible = FALSE
    /\ shouldPause = FALSE
    /\ wasPausedWhenOpened = FALSE
    /\ emitted = <<>>
    /\ modalCalls = 0

\* Nothing is followed apart from the game.
IdleApart ==
    /\ flight = NoFlight
    /\ NewRelay
    /\ NewLobby({"Master"})
    /\ NewConnection
    /\ NewTerrain
    /\ NewModal

\* A game in which calculateCombinedBonuses is not followed.
InitWith(layouts, revisions, golds) ==
    /\ InitGame(layouts, revisions, golds)
    /\ completedResearches = <<>>
    /\ combined = NotCalculated
    /\ IdleApart

\* The newer revision of the sources, every player with 1,500,000 gold.
Init == InitWith(AirportLayouts, {2}, {1500000})

\* The full game is followed from the layout with three airports.
InitFull ==
    /\ Init
    /\ Len(units) = 3

Next ==
    \/ BeginTick(MaxTick)
    \/ ResearchInitStep \/ TransportInitStep \/ AdminInitStep
    \/ AirportInitStep \/ AttackInitStep
    \/ ResearchTickStep \/ TransportTickStep \/ AdminTickStep
    \/ AirportTickStep \/ AttackTickStep
    \/ EndTick
    \/ ResearchIntent(FirstResearches)
    \/ AddTransport({1} \X {Null, MapRef(5, MapHeight - 1)} \X {2})
    \/ AddAdmin \/ AddAirport
    \/ Eliminate \/ DestroyUnit \/ FinishConstruction

Spec == InitFull /\ [][Next]_vars

\* The research game: research intents and eliminations only, over the
\* time two researches take.
InitResearch == InitWith({<<>>}, {1, 2}, GoldLevels)

NextResearch ==
    \/ BeginTick(ResearchMaxTick)
    \/ ResearchInitStep
    \/ ResearchTickStep
    \/ EndTick
    \/ AddResearch
    \/ Eliminate

SpecResearch == InitResearch /\ [][NextResearch]_vars

\* The airdrop game: airdrop intents against every kind of destination,
\* with units destroyed and airports finished between ticks.
NextAirdrop ==
    \/ BeginTick(MaxTick)
    \/ TransportInitStep \/ AttackInitStep
    \/ TransportTickStep \/ AttackTickStep
    \/ EndTick
    \/ AddTransport(AirdropRequests)
    \/ DestroyUnit \/ FinishConstruction

SpecAirdrop == Init /\ [][NextAirdrop]_vars

\* The landing game: both revisions of the sources, airdrops of players 1
\* and 3 to player 3's tile, to the unclaimed tile and to the water tile.
LandingRequests ==
    ({1} \X {MapRef(5, MapHeight - 1)} \X {2, 5})
        \cup ({1} \X {MapRef(3, MapHeight - 1), MapRef(4, MapHeight - 1)} \X {2})
        \cup {<<3, MapRef(3, MapHeight - 1), 2>>}

InitLanding ==
    /\ InitWith(AirportLayouts, {1, 2}, {1500000})
    /\ Len(units) = 3

NextLanding ==
    \/ BeginTick(MaxTick)
    \/ TransportInitStep \/ AttackInitStep
    \/ TransportTickStep \/ AttackTickStep
    \/ EndTick
    \/ AddTransport(LandingRequests)

SpecLanding == InitLanding /\ [][NextLanding]_vars

\* The team game: both revisions of the sources; players 1 and 2, on one
\* team, each have an airport and troops, and each airdrops to the same
\* unclaimed land tile, one path element from both airports.
TeamLayout ==
    <<Airport(1, MapRef(1, 0), FALSE), Airport(2, MapRef(2, 0), FALSE)>>

TeamTroops == [p \in Players |-> IF p \in {1, 2} THEN 2 ELSE 0]

TeamRequests ==
    {<<1, MapRef(3, MapHeight - 1), 2>>, <<2, MapRef(3, MapHeight - 1), 1>>}

InitTeam ==
    /\ InitGameWith({TeamLayout}, {1, 2}, {1500000}, TeamTroops)
    /\ completedResearches = <<>>
    /\ combined = NotCalculated
    /\ IdleApart

NextTeam ==
    \/ BeginTick(MaxTick)
    \/ TransportInitStep
    \/ TransportTickStep
    \/ EndTick
    \/ AddTransport(TeamRequests)

SpecTeam == InitTeam /\ [][NextTeam]_vars

\* calculateCombinedBonuses alone, in both revisions of the sources: the
\* argument is any array of at most MaxCompleted entries, each a research
\* type of the revision or a value that is none.
CompletedArrays ==
    UNION { [1 .. n -> ResearchType \cup {InvalidResearch}] : n \in 0 .. MaxCompleted }

InitBonuses ==
    /\ InitGame({<<>>}, {1, 2}, {1500000})
    /\ completedResearches \in CompletedArrays
    /\ combined = NotCalculated
    /\ IdleApart

\* A call of calculateCombinedBonuses returns.
Calculate ==
    /\ combined' = [bonuses |-> calculateCombinedBonuses(completedResearches),
                    calculated |-> TRUE, input |-> completedResearches]
    /\ UNCHANGED <<revision, sched, world, completedResearches, apart>>

\* The next caller holds an array with the same research types, in any
\* order and with any repetition.
NextArgument ==
    /\ combined.calculated
    /\ combined.input = completedResearches
    /\ \E n \in 0 .. MaxCompleted :
           \E a \in [1 .. n -> Range(completedResearches)] :
               /\ Range(a) = Range(completedResearches)
               /\ completedResearches' = a
    /\ UNCHANGED <<revision, sched, world, combined, apart>>

NextBonuses == Calculate \/ NextArgument

SpecBonuses == InitBonuses /\ [][NextBonuses]_vars

\* The eight research types in the order of the tree.
TreeOrder ==
    [i \in 1 .. Cardinality(ResearchTypeV2) |->
        CHOOSE t \in ResearchTypeV2 : RESEARCH_DEFINITIONS_V2[t].order = i]

Reversed(a) == [i \in 1 .. Len(a) |-> a[Len(a) + 1 - i]]

\* The arrays that hold a set of research types of the eight-step tree,
\* each type once, in the order of the tree or against it.
CompletedSets ==
    LET inOrder == {SelectSeq(TreeOrder, LAMBDA t : t \in S) :
                      S \in SUBSET ResearchTypeV2}
    IN  inOrder \cup {Reversed(a) : a \in inOrder}

\* calculateCombinedBonuses of the newer revision, called on a set.
InitSets ==
    /\ InitGame({<<>>}, {2}, {1500000})
    /\ completedResearches \in CompletedSets
    /\ combined = NotCalculated
    /\ IdleApart

NextSets == Calculate

SpecSets == InitSets /\ [][NextSets]_vars

\* The admin game: admin commands only, add_troops with every amount.
NextAdmin ==
    \/ BeginTick(MaxTick)
    \/ AdminInitStep
    \/ AdminTickStep
    \/ EndTick
    \/ AddAdmin
    \/ AddTroopsCommand

SpecAdmin == Init /\ [][NextAdmin]_vars

\* calculatePath alone: the arguments are any two tiles of the map.
InitPath ==
    /\ InitGame({<<>>}, {2}, {1500000})
    /\ completedResearches = <<>>
    /\ combined = NotCalculated
    /\ \E src \in Tiles, dst \in Tiles :
           flight = [computed |-> FALSE, src |-> src, dst |-> dst]
    /\ NewRelay
    /\ NewLobby({"Master"})
    /\ NewConnection
    /\ NewTerrain
    /\ NewModal

\* The call of calculatePath returns.
ComputePath ==
    /\ ~flight.computed
    /\ flight' = [computed |-> TRUE, src |-> flight.src, dst |-> flight.dst,
                  tiles |-> calculatePath(flight.src, flight.dst)]
    /\ UNCHANGED <<revision, sched, world, completedResearches, combined,
                   relay, lobby, conn, terrains, modal>>

NextPath == ComputePath

SpecPath == InitPath /\ [][NextPath]_vars

\* ------------------------------------------------- the /w{N} relay
\* Payloads of the messages followed.
Payloads == {"a", "b"}

\* The game, the research calculator and calculatePath take no step.
RelayOnly ==
    UNCHANGED <<revision, sched, world, completedResearches, combined,
                flight, lobby, conn, terrains, modal>>

\* workerWs.close(...) and clientWs.close(...) as the handlers call them,
\* behind their test of readyState: an open socket starts closing.
CloseIfOpen(readyState) == IF readyState = "OPEN" THEN "CLOSING" ELSE readyState

\* workerWs.on("open"): the socket becomes OPEN and its handler runs in the
\* same turn, sending every pending message, first to last.
WorkerOpen ==
    /\ workerWs = "CONNECTING"
    /\ workerWs' = "OPEN"
    /\ workerConnected' = TRUE
    /\ sent' = sent \o pendingMessages
    /\ pendingMessages' = <<>>
    /\ UNCHANGED <<clientWs, received, delivered>>
    /\ RelayOnly

\* workerWs.on("message"): a message of the worker is passed to the client
\* if the client's socket is open, dropped otherwise.
WorkerMessage ==
    \E data \in Payloads :
        /\ workerWs \in {"OPEN", "CLOSING"}
        /\ Len(delivered) < MaxMessages
        /\ delivered' = IF clientWs = "OPEN"
                        THEN Append(delivered, data) ELSE delivered
        /\ UNCHANGED <<clientWs, workerWs, workerConnected, pendingMessages,
                       received, sent>>
        /\ RelayOnly

\* The worker's close frame arrives: its socket is CLOSING until the
\* connection is gone. No handler of the relay runs.
WorkerClosing ==
    /\ workerWs = "OPEN"
    /\ workerWs' = "CLOSING"
    /\ UNCHANGED <<clientWs, workerConnected, pendingMessages, received,
                   sent, delivered>>
    /\ RelayOnly

\* workerWs.on("error"): the connection attempt or the connection fails;
\* the socket is CLOSING when the handler runs.
WorkerError ==
    /\ workerWs \in {"CONNECTING", "OPEN"}
    /\ workerWs' = "CLOSING"
    /\ clientWs' = CloseIfOpen(clientWs)
    /\ UNCHANGED <<workerConnected, pendingMessages, received, sent,
                   delivered>>
    /\ RelayOnly

\* workerWs.on("close"): the connection is gone.
WorkerClose ==
    /\ workerWs = "CLOSING"
    /\ workerWs' = "CLOSED"
    /\ clientWs' = CloseIfOpen(clientWs)
    /\ UNCHANGED <<workerConnected, pendingMessages, received, sent,
                   delivered>>
    /\ RelayOnly

\* clientWs.on("message"): sent on at once if the worker socket has opened
\* and is open, pushed onto pendingMessages otherwise. A closing socket
\* still delivers what its peer sent before the peer's close frame.
ClientMessage ==
    \E data \in Payloads :
        /\ clientWs \in {"OPEN", "CLOSING"}
        /\ Len(received) < MaxMessages
        /\ received' = Append(received, data)
        /\ IF workerConnected /\ workerWs = "OPEN"
           THEN /\ sent' = Append(sent, data)
                /\ UNCHANGED pendingMessages
           ELSE /\ pendingMessages' = Append(pendingMessages, data)
                /\ UNCHANGED sent
        /\ UNCHANGED <<clientWs, workerWs, workerConnected, delivered>>
        /\ RelayOnly

\* clientWs.on("error"): the socket is CLOSING when the handler runs.
ClientError ==
    /\ clientWs = "OPEN"
    /\ clientWs' = "CLOSING"
    /\ workerWs' = CloseIfOpen(workerWs)
    /\ UNCHANGED <<workerConnected, pendingMessages, received, sent,
                   delivered>>
    /\ RelayOnly

\* clientWs.on("close"): the client's connection is gone.
ClientClose ==
    /\ clientWs \in {"OPEN", "CLOSING"}
    /\ clientWs' = "CLOSED"
    /\ workerWs' = CloseIfOpen(workerWs)
    /\ UNCHANGED <<workerConnected, pendingMessages, received, sent,
                   delivered>>
    /\ RelayOnly

\* One relay, from the upgrade on.
InitRelay ==
    /\ InitGame({<<>>}, {2}, {1500000})
    /\ completedResearches = <<>>
    /\ combined = NotCalculated
    /\ flight = NoFlight
    /\ NewRelay
    /\ NewLobby({"Master"})
    /\ NewConnection
    /\ NewTerrain
    /\ NewModal

NextRelay ==
    \/ WorkerOpen
    \/ WorkerMessage
    \/ WorkerClosing
    \/ WorkerError
    \/ WorkerClose
    \/ ClientMessage
    \/ ClientError
    \/ ClientClose

SpecRelay == InitRelay /\ [][NextRelay]_vars

\* ------------------------------------------------- public lobbies
\* The game, the research calculator, calculatePath and the relay take no
\* step.
LobbyOnly ==
    UNCHANGED <<revision, sched, world, completedResearches, combined,
                flight, relay, conn, terrains, modal>>

\* Times left until a game starts, in ms, as the polls find them.
MsLevels == {0, StartingSoonMs, StartingSoonMs + 1, 2 * StartingSoonMs}

\* The time left after some time has passed: the next level below.
Later(ms) ==
    IF ms = Null \/ ms = 0
    THEN ms
    ELSE CHOOSE l \in MsLevels :
             /\ l < ms
             /\ \A k \in MsLevels : k < ms => k <= l

\* The map step of fetchLobbies: clients?.length ?? 0, and
\* (msUntilStart ?? Date.now()) - Date.now().
MapInfo(gi) ==
    [gi EXCEPT !.numClients = IF @ = Null THEN 0 ELSE @,
               !.msUntilStart = IF @ = Null THEN 0 ELSE @]

\* The two tests of the forEach of fetchLobbies: the lobby starts within
\* 250 ms, or it has a maxPlayers and as many clients.
StartsOrFull(l) ==
    \/ l.msUntilStart <= StartingSoonMs
    \/ l.maxPlayers # Null /\ l.maxPlayers <= l.numClients

\* publicLobbyIDs after fetchLobbies, given what each fetch came to: the
\* catch handlers delete the ID asked for, the forEach deletes the ID the
\* lobby info names.
RemainingIDs(ids, res) ==
    LET asked == DOMAIN res
        lobbyInfos == {MapInfo(res[id]) :
                         id \in {a \in asked : res[a].fetch # "rejected"}}
    IN  (ids \ {id \in asked : res[id].fetch = "rejected"})
            \ {l.gameID : l \in {x \in lobbyInfos : StartsOrFull(x)}}

\* publicLobbiesData after fetchLobbies.
LobbiesData(res) ==
    {MapInfo(res[id]) : id \in {a \in DOMAIN res : res[a].fetch # "rejected"}}

\* What the worker's game info handler answers for an ID.
WorkerAnswer(id) ==
    IF games[id] = NoGame
    THEN LobbyInfo("not found", Null, Null, Null, Null)
    ELSE LobbyInfo("ok", id, games[id].numClients, games[id].maxPlayers,
                   games[id].msUntilStart)

\* Master fetchLobbies, up to its await: one fetch per ID of a copy of
\* publicLobbyIDs.
StartFetch ==
    /\ server = "Master"
    /\ pollPc = "wait"
    /\ pollPc' = "fetch"
    /\ snapshot' = publicLobbyIDs
    /\ UNCHANGED <<server, publicLobbyIDs, publicLobbiesData, generated,
                   games, creating, fetched, lobbies>>
    /\ LobbyOnly

\* Master fetchLobbies from its await on: every fetch has been answered by
\* the worker or rejected (no connection, timeout, no JSON).
CompleteFetch ==
    /\ server = "Master"
    /\ pollPc = "fetch"
    /\ \E res \in [snapshot ->
                     {LobbyInfo("rejected", Null, Null, Null, Null)}
                         \cup {WorkerAnswer(id) : id \in snapshot}] :
           /\ \A id \in snapshot :
                  res[id].fetch # "rejected" => res[id] = WorkerAnswer(id)
           /\ fetched' = res
           /\ publicLobbyIDs' = RemainingIDs(publicLobbyIDs, res)
           /\ publicLobbiesData' = LobbiesData(res)
    /\ lobbies' = Cardinality(publicLobbyIDs')
    /\ pollPc' = "callback"
    /\ UNCHANGED <<server, generated, snapshot, games, creating>>
    /\ LobbyOnly

\* Single-server fetchLobbies: the GameManager of the same process is
\* asked; an ID it holds no game for is deleted.
SingleFetch ==
    /\ server = "Single"
    /\ pollPc = "wait"
    /\ LET res == [id \in publicLobbyIDs |->
                      IF games[id] = NoGame
                      THEN LobbyInfo("rejected", Null, Null, Null, Null)
                      ELSE WorkerAnswer(id)]
       IN  /\ fetched' = res
           /\ publicLobbyIDs' = RemainingIDs(publicLobbyIDs, res)
           /\ publicLobbiesData' = LobbiesData(res)
    /\ snapshot' = publicLobbyIDs
    /\ lobbies' = Cardinality(publicLobbyIDs')
    /\ pollPc' = "callback"
    /\ UNCHANGED <<server, generated, games, creating>>
    /\ LobbyOnly

\* A task that schedules while one public lobby remains.
ShouldScheduleWithOneLeft(count) == count <= 1

\* The test of the polling task: no public lobby remains.
ShouldSchedule(count) == count = 0

\* Games a new public lobby may be: with or without a maxPlayers, with or
\* without a start time.
NewGames ==
    {GameOf(0, limit, ms) : limit \in {Null, MaxClients},
                            ms \in {Null, 2 * StartingSoonMs}}

\* The rest of the polling task, and the wait for the next turn of the
\* loop. schedulePublicGame adds a new ID to publicLobbyIDs at once; the
\* master then sends create_game and does not wait for it, the single
\* server awaits the playlist's config and creates the game itself, unless
\* that fails.
Callback ==
    /\ pollPc = "callback"
    /\ pollPc' = "wait"
    /\ IF ShouldSchedule(lobbies) /\ generated < MaxGames
       THEN /\ generated' = generated + 1
            /\ publicLobbyIDs' = publicLobbyIDs \cup {generated'}
            /\ IF server = "Master"
               THEN /\ creating' = creating \cup {generated'}
                    /\ UNCHANGED games
               ELSE /\ \E g \in NewGames \cup {NoGame} :
                           games' = [games EXCEPT ![generated'] = g]
                    /\ UNCHANGED creating
       ELSE UNCHANGED <<generated, publicLobbyIDs, games, creating>>
    /\ UNCHANGED <<server, publicLobbiesData, snapshot, fetched, lobbies>>
    /\ LobbyOnly

\* The worker handles create_game: its GameManager holds the game.
WorkerCreates ==
    \E id \in creating :
        /\ creating' = creating \ {id}
        /\ \E g \in NewGames : games' = [games EXCEPT ![id] = g]
        /\ UNCHANGED <<server, publicLobbyIDs, publicLobbiesData, generated,
                       pollPc, snapshot, fetched, lobbies>>
        /\ LobbyOnly

\* The create_game request fails (no connection, or an answer that is not
\* ok): schedulePublicGame throws, scheduleLobbies logs the error.
CreateFails ==
    \E id \in creating :
        /\ creating' = creating \ {id}
        /\ UNCHANGED <<server, publicLobbyIDs, publicLobbiesData, generated,
                       pollPc, snapshot, games, fetched, lobbies>>
        /\ LobbyOnly

\* A client joins a listed lobby.
Join ==
    \E id \in publicLobbyIDs :
        /\ games[id] # NoGame
        /\ games[id].numClients < MaxClients
        /\ games' = [games EXCEPT ![id].numClients = @ + 1]
        /\ UNCHANGED <<server, publicLobbyIDs, publicLobbiesData, generated,
                       pollPc, snapshot, creating, fetched, lobbies>>
        /\ LobbyOnly

\* Time passes for the listed lobbies.
Elapse ==
    /\ \E id \in publicLobbyIDs :
           Later(games[id].msUntilStart) # games[id].msUntilStart
    /\ games' = [id \in GameIDs |->
                    IF id \in publicLobbyIDs /\ games[id] # NoGame
                    THEN [games[id] EXCEPT !.msUntilStart = Later(@)]
                    ELSE games[id]]
    /\ UNCHANGED <<server, publicLobbyIDs, publicLobbiesData, generated,
                   pollPc, snapshot, creating, fetched, lobbies>>
    /\ LobbyOnly

\* The lobby scheduler of either server.
InitLobby ==
    /\ InitGame({<<>>}, {2}, {1500000})
    /\ completedResearches = <<>>
    /\ combined = NotCalculated
    /\ flight = NoFlight
    /\ NewRelay
    /\ NewLobby({"Master", "Single"})
    /\ NewConnection
    /\ NewTerrain
    /\ NewModal

NextLobby ==
    \/ StartFetch
    \/ CompleteFetch
    \/ SingleFetch
    \/ Callback
    \/ WorkerCreates
    \/ CreateFails
    \/ Join
    \/ Elapse

SpecLobby == InitLobby /\ [][NextLobby]_vars

\* The polling loop runs its task again and again, a request sent is
\* answered or fails, and time passes.
SpecLobbyFair ==
    /\ SpecLobby
    /\ WF_vars(StartFetch)
    /\ WF_vars(CompleteFetch)
    /\ WF_vars(SingleFetch)
    /\ WF_vars(Callback)
    /\ WF_vars(WorkerCreates \/ CreateFails)
    /\ WF_vars(Elapse)

\* ------------------------------------------------- game connections
\* The game, the research calculator, calculatePath, the relay and the
\* lobby scheduler take no step.
ConnectionOnly ==
    UNCHANGED <<revision, sched, world, completedResearches, combined,
                flight, relay, lobby, terrains, modal>>

\* The games the GameManager holds while the connection is followed, and
\* the IDs messages name.
KnownGames == {1}
NamedGames == {1, 2}

\* The messages a client sends: a ping, any other message of a game, a join
\* or a rejoin naming a game, and data that is no JSON.
GameMessages ==
    {[type |-> t, gameID |-> Null] : t \in {"ping", "intent", "no JSON"}}
        \cup {[type |-> t, gameID |-> id] :
                 t \in {"join", "rejoin"}, id \in NamedGames}

\* A handler that goes on handling joins after a join.
HandlesMessageAfterJoin(joined, message) ==
    message.type \in {"join", "rejoin"}

\* The early returns of the handler: it has joined, the data does not
\* parse, a ping, or a type other than join and rejoin.
HandlesMessage(joined, message) ==
    ~joined /\ message.type \in {"join", "rejoin"}

\* gm.joinClient finds the game or not; gm.rejoinClient finds the game and
\* the client in it, or not.
WasFound(message) ==
    IF message.gameID \notin KnownGames
    THEN {FALSE}
    ELSE IF message.type = "join" THEN {TRUE} ELSE {TRUE, FALSE}

\* ws.on("message") of a game connection.
GameMessage ==
    \E message \in GameMessages :
        /\ gameWs \in {"OPEN", "CLOSING"}
        /\ Len(inbox) < MaxMessages
        /\ inbox' = Append(inbox, message)
        /\ IF HandlesMessage(hasJoined, message)
           THEN \E wasFound \in WasFound(message) :
                    IF wasFound
                    THEN /\ hasJoined' = TRUE
                         /\ joinedGames' = Append(joinedGames, message.gameID)
                         /\ UNCHANGED <<gameWs, closeCode>>
                    ELSE /\ gameWs' = "CLOSING"
                         /\ closeCode' = IF gameWs = "OPEN" THEN 1002
                                         ELSE closeCode
                         /\ UNCHANGED <<hasJoined, joinedGames>>
           ELSE UNCHANGED <<hasJoined, gameWs, closeCode, joinedGames>>
        /\ ConnectionOnly

\* The connection is gone: the client closed it, or answered the close.
GameWsClose ==
    /\ gameWs \in {"OPEN", "CLOSING"}
    /\ gameWs' = "CLOSED"
    /\ UNCHANGED <<hasJoined, closeCode, joinedGames, inbox>>
    /\ ConnectionOnly

InitConnection ==
    /\ InitGame({<<>>}, {2}, {1500000})
    /\ completedResearches = <<>>
    /\ combined = NotCalculated
    /\ flight = NoFlight
    /\ NewRelay
    /\ NewLobby({"Master"})
    /\ NewConnection
    /\ NewTerrain
    /\ NewModal

NextConnection == GameMessage \/ GameWsClose

SpecConnection == InitConnection /\ [][NextConnection]_vars

\* ------------------------------------------------- terrain maps
\* The game, the research calculator, calculatePath, the relay, the lobby
\* scheduler and the game connection take no step.
TerrainOnly ==
    UNCHANGED <<revision, sched, world, completedResearches, combined,
                flight, relay, lobby, conn, modal>>

\* The manifest entries the two maps of a size are generated from.
GameMapOf(mapSize) == IF mapSize = "Normal" THEN "map" ELSE "map4x"
MiniMapOf(mapSize) == IF mapSize = "Normal" THEN "map4x" ELSE "map16x"

\* loadTerrainMap up to its first await: a cached map is returned at once,
\* whatever the size; otherwise the files are asked for.
BeginLoad ==
    \E map \in GameMapType, mapSize \in GameMapSize :
        /\ loads < MaxLoads
        /\ loads' = loads + 1
        /\ IF loadedMaps[map] # NotLoaded
           THEN /\ lastCall' = <<map, mapSize>>
                /\ lastData' = loadedMaps[map]
                /\ UNCHANGED loading
           ELSE /\ loading' = loading \cup {<<map, mapSize>>}
                /\ UNCHANGED <<lastCall, lastData>>
        /\ UNCHANGED <<loadedMaps, manifests>>
        /\ TerrainOnly

\* loadTerrainMap from its last await on: a Compact load halves the
\* coordinates of the manifest's nations in place; the result is cached
\* under the map and returned.
FinishLoad ==
    \E call \in loading :
        LET map == call[1]
            mapSize == call[2]
            result == TerrainMapData(map, GameMapOf(mapSize),
                                     MiniMapOf(mapSize))
        IN  /\ loading' = loading \ {call}
            /\ manifests' = IF mapSize = "Compact"
                            THEN [manifests EXCEPT ![map] = @ \div 2]
                            ELSE manifests
            /\ loadedMaps' = [loadedMaps EXCEPT ![map] = result]
            /\ lastCall' = call
            /\ lastData' = result
            /\ UNCHANGED loads
            /\ TerrainOnly

InitTerrain ==
    /\ InitGame({<<>>}, {2}, {1500000})
    /\ completedResearches = <<>>
    /\ combined = NotCalculated
    /\ flight = NoFlight
    /\ NewRelay
    /\ NewLobby({"Master"})
    /\ NewConnection
    /\ NewTerrain
    /\ NewModal

NextTerrain == BeginLoad \/ FinishLoad

SpecTerrain == InitTerrain /\ [][NextTerrain]_vars

\* ------------------------------------------------- settings modal
\* Nothing but the settings modal takes a step.
ModalOnly ==
    UNCHANGED <<revision, sched, world, completedResearches, combined,
                flight, relay, lobby, conn, terrains>>

\* pauseGame(pause): what has been emitted once it returns, each event with
\* the value of isVisible at that moment.
pauseGame(pause, should, wasPaused, visible) ==
    IF should /\ ~wasPaused
    THEN Append(emitted, <<pause, visible>>)
    ELSE emitted

\* One more event or call is received.
ModalCall ==
    /\ modalCalls < MaxModalCalls
    /\ modalCalls' = modalCalls + 1

\* The handler of ShowSettingsModalEvent.
ShowSettingsModal ==
    \E visible \in BOOLEAN, should \in BOOLEAN, isPaused \in BOOLEAN :
        /\ ModalCall
        /\ isVisible' = visible
        /\ shouldPause' = should
        /\ wasPausedWhenOpened' = isPaused
        /\ emitted' = pauseGame(TRUE, should, isPaused, visible)
        /\ ModalOnly

\* openModal()
openModal ==
    /\ ModalCall
    /\ isVisible' = TRUE
    /\ UNCHANGED <<shouldPause, wasPausedWhenOpened, emitted>>
    /\ ModalOnly

\* closeModal(), called from outside or by the modal's close button.
closeModal ==
    /\ ModalCall
    /\ isVisible' = FALSE
    /\ emitted' = pauseGame(FALSE, shouldPause, wasPausedWhenOpened, FALSE)
    /\ UNCHANGED <<shouldPause, wasPausedWhenOpened>>
    /\ ModalOnly

\* handleKeyDown with Escape, handleOutsideClick on the overlay: closeModal
\* if the modal is visible.
handleKeyDown ==
    /\ isVisible
    /\ closeModal

InitModal ==
    /\ InitGame({<<>>}, {2}, {1500000})
    /\ completedResearches = <<>>
    /\ combined = NotCalculated
    /\ flight = NoFlight
    /\ NewRelay
    /\ NewLobby({"Master"})
    /\ NewConnection
    /\ NewTerrain
    /\ NewModal

NextModal ==
    \/ ShowSettingsModal
    \/ openModal
    \/ handleKeyDown
    \/ closeModal

SpecModal == InitModal /\ [][NextModal]_vars

\* ================================================================ claims
\* Executions whose active flag is false: those still in the active set and
\* those the last pass removed.
InactiveExecs ==
    terminated \cup {execs[i] : i \in {j \in 1 .. Len(execs) : ~execs[j].active}}

\* The scheduler's next step is its reaping step.
AtEndTick == pc = "tick" /\ idx > Len(execs)

\* C1: a call of tick on an execution whose active flag is false - rejected
\* by init, or deactivated by an earlier tick - returns the execution and
\* the game (players, units, map, messages, queue) exactly as they were.
C1_InactiveTickHasNoEffect ==
    \A e \in InactiveExecs : ExecTick(e, G, ticks) = [e |-> e, g |-> G]

\* An admin command that gave gold or troops has run and is inactive, next to
\* a rejected or landed airdrop.
C1_Witness ==
    /\ \E e \in terminated :
          e.kind = "Admin" /\ e.action \in {"add_gold", "add_troops"} /\ e.hasAmount
    /\ \E e \in terminated : e.kind = "Transport"

\* C2: no call of init or tick makes an inactive execution active again: an
\* execution of the active set whose flag is false keeps it false until the
\* scheduler removes it, and removed executions are inactive.
C2_ActiveIsMonotone ==
    [][/\ ~AtEndTick =>
            \A i \in 1 .. Len(execs) : ~execs[i].active => ~execs'[i].active
       /\ \A e \in terminated' : ~e.active]_vars

\* An execution that init rejected has been ticked in the same pass and is
\* still inactive.
C2_Witness ==
    /\ pc = "tick"
    /\ \E i \in 1 .. Len(execs) :
          i < idx /\ ~execs[i].active /\ execs[i].kind \in {"Research", "Transport"}

\* The scheduler's step is the init / tick call on execs[idx] of this kind.
InitCallOf(kind) ==
    /\ pc = "init"
    /\ idx <= Len(execs)
    /\ execs[idx].kind = kind
    /\ <<pc', idx'>> # <<pc, idx>>

TickCallOf(kind) ==
    /\ pc = "tick"
    /\ idx <= Len(execs)
    /\ execs[idx].kind = kind
    /\ idx' # idx

Cost(type) == getResearchDefinition(type).cost
Duration(type) == getResearchDefinition(type).durationTicks

\* The start conditions the claim names: gold >= cost, prerequisites
\* completed, nothing in progress.
NamedStartConditions(p, type) ==
    /\ gold[p] >= Cost(type)
    /\ \A q \in getResearchDefinition(type).prerequisites :
           researches[p][q].completed
    /\ currentResearch[p] = NoResearch

\* An init call of a ResearchExecution under `conditions` leaves it active
\* with exactly the cost deducted; a rejecting init deducts nothing; no tick
\* call and no reaping changes gold.
GoldChargedOnceAtStart(conditions(_, _)) ==
    /\ InitCallOf("Research") =>
          LET e == execs[idx]
          IN  /\ conditions(e.player, e.researchType) =>
                    /\ execs'[idx].active
                    /\ gold' = [gold EXCEPT ![e.player] = @ - Cost(e.researchType)]
              /\ ~execs'[idx].active => gold' = gold
    /\ pc = "tick" => gold' = gold

\* C3 as stated: with gold >= cost, the prerequisites met and no research
\* in progress, init succeeds and deducts the cost once; ticks never do.
C3_Original == [][GoldChargedOnceAtStart(NamedStartConditions)]_vars

AmendedStartConditions(p, type) ==
    NamedStartConditions(p, type) /\ ~researches[p][type].completed

\* C3, amended: the same for a research type the player has not completed
\* yet.
C3_GoldChargedOnceAtStart == [][GoldChargedOnceAtStart(AmendedStartConditions)]_vars

\* A research that cost exactly the player's gold has been started and
\* completed: gold is 0 after the completion.
C3_Witness ==
    /\ revision = 1
    /\ researches[1]["BetterTech"].completed
    /\ gold[1] = 0

\* The started, still active ResearchExecutions of a player.
InProgress(p) ==
    {i \in 1 .. Len(execs) :
        /\ execs[i].kind = "Research"
        /\ execs[i].player = p
        /\ execs[i].active
        /\ execs[i].completionTick # Null}

\* C4: a player never has two researches in progress: at most one started
\* ResearchExecution of the player is active, and it is the one the player
\* records as current.
C4_OneResearchInProgress ==
    \A p \in Players :
        /\ Cardinality(InProgress(p)) <= 1
        /\ \A i \in InProgress(p) : currentResearch[p] = execs[i].researchType

\* Two ResearchExecutions of player 1 were initialised in the same tick: the
\* first started, the second was rejected, and the cost was deducted once.
C4_Witness ==
    /\ Len(execs) = 2
    /\ 1 \in InProgress(1)
    /\ execs[2].kind = "Research" /\ ~execs[2].active
    /\ execs[2].researchType = execs[1].researchType
    /\ gold[1] = 1500000 - Cost(execs[1].researchType)

\* C5: init of a ResearchExecution for a type the player has completed
\* deactivates it, deducts no gold and sets no research in progress.
C5_CompletedNotRestarted ==
    [][(InitCallOf("Research")
          /\ researches[execs[idx].player][execs[idx].researchType].completed)
        => /\ ~execs'[idx].active
           /\ gold' = gold
           /\ currentResearch' = currentResearch
           /\ researches' = researches]_vars

\* A ResearchExecution for a completed type has been rejected by init while
\* the player could pay for it again.
C5_Witness ==
    \E i \in 1 .. Len(execs) :
        /\ execs[i].kind = "Research"
        /\ ~execs[i].active
        /\ researches[execs[i].player][execs[i].researchType].completed
        /\ gold[execs[i].player] >= Cost(execs[i].researchType)
        /\ currentResearch[execs[i].player] = NoResearch

\* C6: the completed researches of a player, and the research in progress,
\* have all their prerequisites completed.
C6_CompletedClosedUnderPrerequisites ==
    \A p \in Players, type \in ResearchType :
        (researches[p][type].completed \/ currentResearch[p] = type)
            => \A q \in getResearchDefinition(type).prerequisites :
                   researches[p][q].completed

\* In the eight-step tree the first two researches are completed.
C6_Witness ==
    /\ revision = 2
    /\ researches[1]["AdvancedFirearms"].completed

\* C7: a research is completed exactly at the tick its start plus its
\* duration gives, never earlier, and a living player's research is not in
\* progress after that tick.
C7_CompletedAtStartPlusDuration ==
    \A p \in Players, type \in ResearchType :
        LET r == researches[p][type]
        IN  /\ r.completed => r.completedAt = r.startedAt + Duration(type)
            /\ (currentResearch[p] = type /\ alive[p] /\ pc = "idle")
                   => ticks <= r.startedAt + Duration(type)

\* The 300-tick research started at tick 0 is in progress at the end of
\* tick 299 ...
C7_WitnessBefore ==
    /\ revision = 1 /\ pc = "idle" /\ ticks = 300
    /\ currentResearch[1] = "InfantryImprovements"
    /\ researches[1]["InfantryImprovements"].startedAt = 0

\* ... and completed by tick 300.
C7_Witness ==
    /\ revision = 1 /\ pc = "idle" /\ ticks = 301
    /\ researches[1]["InfantryImprovements"] =
           [completed |-> TRUE, startedAt |-> 0, completedAt |-> 300]

\* C8: the tick of a started ResearchExecution whose player is dead
\* deactivates it and changes neither researches nor gold, also on or after
\* the completion tick.
C8_DeadPlayerResearchAbandoned ==
    [][(TickCallOf("Research")
          /\ execs[idx].active
          /\ execs[idx].completionTick # Null
          /\ ~alive[execs[idx].player])
        => /\ ~execs'[idx].active
           /\ researches' = researches
           /\ currentResearch' = currentResearch
           /\ gold' = gold]_vars

\* The player was found dead on the completion tick itself: the execution
\* was removed in that pass, the research is not completed, the gold stays
\* spent.
C8_Witness ==
    \E e \in terminated :
        /\ e.kind = "Research"
        /\ e.completionTick + 1 = ticks
        /\ ~alive[e.player]
        /\ ~researches[e.player][e.researchType].completed
        /\ gold[e.player] = 1500000 - Cost(e.researchType)

\* C9: an init call of a TransportPlaneExecution that leaves it active has
\* committed min(T, P): the execution and its plane carry min(T, P) and the
\* pool is P - min(T, P).
C9_CommitIsMin ==
    [][(InitCallOf("Transport") /\ execs'[idx].active)
        => LET T == execs[idx].troops
               P == troops[execs[idx].player]
               m == IF T > P THEN P ELSE T
           IN  /\ execs'[idx].troops = m
               /\ units'[execs'[idx].plane].troops = m
               /\ units'[execs'[idx].plane].active
               /\ troops' = [troops EXCEPT ![execs[idx].player] = P - m]]_vars

\* 5 troops were asked for with 3 in the pool: the plane carries 3 and the
\* pool is empty.
C9_Witness ==
    \E i \in 1 .. Len(units) :
        /\ units[i].type = "TransportPlane"
        /\ units[i].owner = 1
        /\ units[i].active
        /\ units[i].troops = 3
        /\ troops[1] = 0

\* Troops the live planes of a player carry.
RECURSIVE CarriedFrom(_, _)
CarriedFrom(p, i) ==
    IF i > Len(units)
    THEN 0
    ELSE (IF units[i].type = "TransportPlane" /\ units[i].active
             /\ units[i].owner = p
          THEN units[i].troops
          ELSE 0) + CarriedFrom(p, i + 1)

\* C10: the pool of a player is never negative, and the pool together with
\* the troops his planes carry never exceeds the troops he had.
C10_NoDoubleCommitment ==
    \A p \in Players :
        /\ troops[p] >= 0
        /\ troops[p] + CarriedFrom(p, 1) <= InitialTroops[p]

\* Two planes of player 1 are in the air, the second with what the first
\* left in the pool.
C10_Witness ==
    \E i, j \in 1 .. Len(units) :
        /\ i < j
        /\ units[i].type = "TransportPlane" /\ units[i].active
        /\ units[j].type = "TransportPlane" /\ units[j].active
        /\ units[i].owner = 1 /\ units[j].owner = 1
        /\ units[i].troops = 2 /\ units[j].troops = 1
        /\ troops[1] = 0

\* The scheduler's step is a tick call in which a transport lands: its
\* live plane is deleted.
Landing ==
    /\ TickCallOf("Transport")
    /\ execs[idx].active
    /\ units[execs[idx].plane].active
    /\ ~units'[execs[idx].plane].active

\* C11: a landing on land deactivates the execution; on a tile owned by a
\* player who is not on the attacker's team it queues an AttackExecution
\* with exactly the carried troops and leaves every pool alone; on a
\* friendly or unclaimed tile it returns the carried troops to the
\* attacker's pool and queues nothing.
C11_LandingOnLand ==
    [][(Landing /\ isLand(execs[idx].dst))
        => LET e == execs[idx]
               carried == units[e.plane].troops
               o == owner[e.dst]
           IN  /\ ~execs'[idx].active
               /\ IF isPlayer(o) /\ ~isOnSameTeam(e.player, o)
                  THEN /\ unInitExecs' =
                            Append(unInitExecs,
                                   LandingAttack(e.player, carried, o, e.dst))
                       /\ troops' = troops
                  ELSE /\ unInitExecs' = unInitExecs
                       /\ troops' = [troops EXCEPT ![e.player] = @ + carried]]_vars

\* C12: a landing on water deletes the plane and deactivates the execution
\* with the tile not conquered, no attack queued and no troops returned.
C12_LandingOnWater ==
    [][(Landing /\ ~isLand(execs[idx].dst))
        => /\ ~execs'[idx].active
           /\ owner' = owner
           /\ unInitExecs' = unInitExecs
           /\ troops' = troops]_vars

\* The live airports of a player.
AirportsOf(p) ==
    {u \in 1 .. Len(units) :
        units[u].type = "Airport" /\ units[u].owner = p /\ units[u].active}

\* A precondition of TransportPlaneExecution.init fails: the destination is
\* no valid reference, the attacker has no airport, every airport is under
\* construction, the destination's owner is on the attacker's team or cannot
\* be attacked, or the attacker has no troops.
InitPreconditionFails(e) ==
    \/ ~isValidRef(e.dstTile)
    \/ AirportsOf(e.player) = {}
    \/ \A u \in AirportsOf(e.player) : units[u].underConstruction
    \/ /\ isValidRef(e.dstTile)
       /\ isPlayer(owner[e.dstTile])
       /\ \/ isOnSameTeam(e.player, owner[e.dstTile])
          \/ ~canAttackPlayer(e.player, owner[e.dstTile])
    \/ troops[e.player] <= 0

\* C13: an init call of a TransportPlaneExecution with a failing
\* precondition leaves the execution inactive, and an init call that leaves
\* it inactive changes no troops, no unit and no ownership.
C13_RejectedInitHasNoEffect ==
    [][InitCallOf("Transport")
        => /\ InitPreconditionFails(execs[idx]) => ~execs'[idx].active
           /\ ~execs'[idx].active
                 => /\ troops' = troops
                    /\ units' = units
                    /\ owner' = owner]_vars

\* Two airdrops of player 1 were rejected in one pass, one of them for the
\* missing airport, with the pool, the units and the map as before.
C13_Witness ==
    /\ pc = "tick"
    /\ Len(execs) = 2
    /\ \A i \in 1 .. 2 :
          /\ execs[i].kind = "Transport"
          /\ execs[i].player = 1
          /\ execs[i].initCalls = 1
          /\ ~execs[i].active
          /\ execs[i].plane = Null
    /\ \E i \in 1 .. Len(messages) :
          messages[i].key = "events_display.no_airport"
    /\ troops = InitialTroops
    /\ \A u \in 1 .. Len(units) : units[u].type = "Airport"

\* The airports init may start from: the attacker's live airports that are
\* not under construction.
ReadyAirportsOf(p) == {u \in AirportsOf(p) : ~units[u].underConstruction}

\* C14: a successful init starts the plane from an airport of the attacker
\* that is not under construction and is as near to the destination as any
\* other such airport, the first of the attacker's airports among the
\* nearest.
C14_NearestAirport ==
    [][(InitCallOf("Transport") /\ execs'[idx].active)
        => LET e == execs[idx]
               d(u) == Dist2(e.dstTile, units[u].tile)
           IN  \E a \in ReadyAirportsOf(e.player) :
                   /\ execs'[idx].src = units[a].tile
                   /\ units'[execs'[idx].plane].tile = units[a].tile
                   /\ \A b \in ReadyAirportsOf(e.player) :
                          /\ d(a) <= d(b)
                          /\ b < a => d(a) < d(b)]_vars

\* In one pass, with both airports of player 1 ready: the plane to the tile
\* of row 1, as far from one airport as from the other, starts from the
\* first airport, and the plane to the tile of the last row starts from the
\* second, nearer airport.
C14_Witness ==
    /\ pc = "tick"
    /\ ReadyAirportsOf(1) = {1, 2}
    /\ Dist2(MapRef(3, 1), units[1].tile) = Dist2(MapRef(3, 1), units[2].tile)
    /\ \E i, j \in 1 .. Len(execs) :
          /\ execs[i].active /\ execs[i].lastMove = ticks
          /\ execs[i].dst = MapRef(3, 1)
          /\ execs[i].src = units[1].tile
          /\ execs[j].active /\ execs[j].lastMove = ticks
          /\ execs[j].dst = MapRef(5, MapHeight - 1)
          /\ execs[j].src = units[2].tile

\* C15: init at tick t0 leaves the plane at the start of its path with
\* lastMove = t0; a tick call on a flying transport whose plane is alive
\* does nothing unless exactly 2 ticks have passed since the last move, and
\* then advances exactly one path element; the transport lands in the call
\* that takes the last element, so at t0 + 2 * |path|.
C15_OneStepEveryTwoTicks ==
    [][/\ (InitCallOf("Transport") /\ execs'[idx].active)
            => /\ execs'[idx].lastMove = ticks
               /\ execs'[idx].pathIndex = 0
               /\ Len(execs'[idx].pathTiles) > 0
       /\ (TickCallOf("Transport") /\ execs[idx].active
             /\ units[execs[idx].plane].active)
            => LET e == execs[idx]
                   f == execs'[idx]
               IN  /\ ticks <= e.lastMove + 2
                   /\ e.pathIndex < Len(e.pathTiles)
                   /\ IF ticks = e.lastMove + 2
                      THEN /\ f.pathIndex = e.pathIndex + 1
                           /\ f.lastMove = ticks
                           /\ units'[e.plane].tile = e.pathTiles[f.pathIndex]
                           /\ f.active <=> f.pathIndex < Len(e.pathTiles)
                           /\ f.active <=> units'[e.plane].active
                      ELSE f = e /\ units' = units
                   /\ f.lastMove - 2 * f.pathIndex
                         = e.lastMove - 2 * e.pathIndex]_vars

\* A transport with a path of two elements, launched at tick 0 or 1, has
\* landed in the pass of tick 4 or 5: 2 * 2 ticks after its init.
C15_Witness ==
    /\ pc = "idle"
    /\ \E e \in terminated :
          /\ e.kind = "Transport"
          /\ Len(e.pathTiles) = 2
          /\ e.pathIndex = 2
          /\ e.lastMove - 2 * e.pathIndex \in 0 .. (IntentWindow - 1)
          /\ ticks = e.lastMove + 1
          /\ ~units[e.plane].active

\* The bonuses record of a research type of the build; none of any other
\* value.
BonusesOf(type) ==
    IF type \in ResearchType THEN getResearchDefinition(type).bonuses ELSE <<>>

\* The entries of an array that define bonus f.
Defining(completed, f) ==
    SelectSeq(completed, LAMBDA type : f \in DOMAIN BonusesOf(type))

\* The product of bonus f over an array of researches that define it, 1.0
\* for the empty array.
RECURSIVE ProductOver(_, _)
ProductOver(defining, f) ==
    IF defining = <<>>
    THEN DoubleOfHundredths(100)
    ELSE FloatMul(ProductOver(SubSeq(defining, 1, Len(defining) - 1), f),
                  BonusesOf(defining[Len(defining)])[f])

\* The sum of bonus f over an array of researches that define it, 0 for the
\* empty array.
RECURSIVE SumOver(_, _)
SumOver(defining, f) ==
    IF defining = <<>>
    THEN 0
    ELSE SumOver(Tail(defining), f) + BonusesOf(Head(defining))[f]

\* C16: what a call of calculateCombinedBonuses returns has, for each of
\* attack, defense, troop production, gold production and build speed, the
\* product of that bonus over the entries of the argument that define it
\* (1.0 when none does), and as damageReduction the sum of the damage
\* reductions over the entries that define one (0 when none does).
C16_ProductsAndSum ==
    combined.calculated =>
        /\ \A f \in {"attackBonus", "defenseBonus", "troopProductionBonus",
                    "goldProductionBonus", "buildSpeedBonus"} :
              /\ f \in DOMAIN combined.bonuses
              /\ combined.bonuses[f]
                     = ProductOver(Defining(combined.input, f), f)
        /\ "damageReduction" \in DOMAIN combined.bonuses
        /\ combined.bonuses["damageReduction"]
               = SumOver(Defining(combined.input, "damageReduction"),
                         "damageReduction")

\* C17: a call of calculateCombinedBonuses changes neither its argument nor
\* RESEARCH_DEFINITIONS, and a call on any array with the same set of
\* research types as an earlier call's argument, in any order and with any
\* repetition, returns bonuses equal to the earlier call's.
C17_FunctionOfTheSet ==
    (/\ combined.calculated
     /\ Range(completedResearches) = Range(combined.input))
        => calculateCombinedBonuses(completedResearches) = combined.bonuses

\* C19: no call of init or tick, with any constructor arguments and in any
\* game state, has raised an error to the scheduler.
C19_NoErrorReachesScheduler == ~raised

ExecutionKinds == {"Research", "Transport", "Admin", "Airport", "Attack"}

\* C20: an execution registered while a pass runs (the AttackExecution a
\* landing queues) stays in the queue, uninitialised, for the rest of that
\* pass; the next tick boundary moves the whole queue to the end of the
\* active set and calls init on exactly the executions it moved; init is
\* called only on an execution never initialised and tick only on one
\* initialised exactly once.
C20_InitOnceAtNextBoundary ==
    [][/\ (\E k \in ExecutionKinds : InitCallOf(k) \/ TickCallOf(k))
            => /\ Len(execs') = Len(execs)
               /\ Len(unInitExecs') >= Len(unInitExecs)
               /\ SubSeq(unInitExecs', 1, Len(unInitExecs)) = unInitExecs
       /\ (pc = "idle" /\ pc' # "idle")
            => /\ execs' = execs \o unInitExecs
               /\ unInitExecs' = <<>>
               /\ unInitExecs # <<>> => pc' = "init" /\ idx' = Len(execs) + 1
       /\ (\E k \in ExecutionKinds : InitCallOf(k))
            => execs[idx].initCalls = 0 /\ execs'[idx].initCalls = 1
       /\ (\E k \in ExecutionKinds : TickCallOf(k))
            => execs[idx].initCalls = 1 /\ execs'[idx].initCalls = 1
       /\ \A i \in 1 .. Len(unInitExecs') : unInitExecs'[i].initCalls = 0
       /\ pc' = "tick" => \A i \in 1 .. Len(execs') : execs'[i].initCalls = 1
      ]_vars

\* A transport landed on an enemy tile in the pass of the previous tick and
\* queued an attack; the attack has been initialised once, in this pass.
C20_Witness ==
    /\ pc = "tick"
    /\ \E e \in terminated :
          /\ e.kind = "Transport"
          /\ Len(e.pathTiles) > 0
          /\ e.pathIndex = Len(e.pathTiles)
          /\ e.lastMove = ticks - 1
    /\ \E i \in 1 .. Len(execs) :
          /\ execs[i].kind = "Attack"
          /\ execs[i].initCalls = 1
          /\ \A j \in 1 .. Len(execs) : j # i => execs[j].kind # "Attack"

\* Transport i of the active set has landed on its destination in the pass
\* of this tick.
LandedThisTick(i) ==
    /\ execs[i].kind = "Transport"
    /\ ~execs[i].active
    /\ Len(execs[i].pathTiles) > 0
    /\ execs[i].pathIndex = Len(execs[i].pathTiles)
    /\ execs[i].lastMove = ticks

\* C21: when a transport lands on a land tile on which a transport of
\* another attacker, registered earlier, has landed in the same tick, the
\* tile belongs after the landing to the attacker registered earliest.
C21_EarlierLandingKeepsTile ==
    [][(Landing /\ isLand(execs[idx].dst))
        => \A j \in 1 .. (idx - 1) :
              (/\ LandedThisTick(j)
               /\ execs[j].dst = execs[idx].dst
               /\ execs[j].player # execs[idx].player
               /\ \A i \in 1 .. (j - 1) :
                     ~(LandedThisTick(i) /\ execs[i].dst = execs[idx].dst))
                  => owner'[execs[idx].dst] = execs[j].player]_vars

\* C22: what calculatePath returns for two tiles of the map, equal or not,
\* is a sequence with at least one element, every element a valid tile
\* reference and the last one the destination.
C22_PathEndsAtDestination ==
    flight.computed =>
        /\ Len(flight.tiles) > 0
        /\ \A i \in 1 .. Len(flight.tiles) : isValidRef(flight.tiles[i])
        /\ flight.tiles[Len(flight.tiles)] = flight.dst

\* The path between two opposite corners of the map has been computed: more
\* than one element.
C22_Witness ==
    /\ flight.computed
    /\ flight.src = MapRef(0, 0)
    /\ flight.dst = MapRef(MapWidth - 1, MapHeight - 1)
    /\ Len(flight.tiles) > 1

\* The path from a tile to itself has been computed: the tile alone.
C22_WitnessSameTile ==
    /\ flight.computed
    /\ flight.src = flight.dst
    /\ flight.tiles = <<flight.dst>>

\* The tick of the init call of a transport in flight: it moves one path
\* element every ticksPerMove ticks from there.
InitTick(e) == e.lastMove - ticksPerMove * e.pathIndex

\* C23: a transport that passed init and is still active has not been
\* ticked in any tick later than 2 * |path| ticks after its init, and is
\* inactive once the call of that tick has returned - landed then, or
\* earlier if its plane was destroyed.
C23_InactiveWithinTwicePath ==
    \A i \in 1 .. Len(execs) :
        (/\ execs[i].kind = "Transport"
         /\ execs[i].initCalls = 1
         /\ execs[i].active)
            => LET e == execs[i]
                   limit == InitTick(e) + 2 * Len(e.pathTiles)
               IN  /\ Len(e.pathTiles) > 0
                   /\ ticks <= limit
                   /\ (pc = "tick" /\ i < idx) => ticks < limit
                   /\ pc = "idle" => ticks - 1 < limit

\* A transport with a path of two elements has just been ticked for the
\* fourth time after its init, and is inactive.
C23_Witness ==
    /\ pc = "tick"
    /\ \E i \in 1 .. (idx - 1) :
          /\ LandedThisTick(i)
          /\ Len(execs[i].pathTiles) = 2
          /\ ticks = InitTick(execs[i]) + 2 * 2

\* C24: a tick call on an active transport whose plane is no longer active
\* deactivates the execution and changes nothing else: no tile changes
\* owner, no attack is queued, and no pool gets the committed troops back.
C24_DestroyedPlaneLosesTroops ==
    [][(/\ TickCallOf("Transport")
        /\ execs[idx].active
        /\ ~units[execs[idx].plane].active)
        => /\ execs' = [execs EXCEPT ![idx].active = FALSE]
           /\ owner' = owner
           /\ unInitExecs' = unInitExecs
           /\ troops' = troops
           /\ units' = units]_vars

\* A transport of player 1 with 2 troops, destroyed before its first move,
\* has been ticked and is inactive; the 2 troops are in no pool and no
\* attack is queued.
C24_Witness ==
    /\ pc = "tick"
    /\ unInitExecs = <<>>
    /\ \E i \in 1 .. (idx - 1) :
          /\ execs[i].kind = "Transport"
          /\ execs[i].player = 1
          /\ ~execs[i].active
          /\ execs[i].initCalls = 1
          /\ execs[i].plane # Null
          /\ ~units[execs[i].plane].active
          /\ units[execs[i].plane].troops = 2
          /\ execs[i].pathIndex = 0
          /\ troops[1] = InitialTroops[1] - 2

\* C25: a landing on land queues an AttackExecution exactly when the owner
\* of the destination at the landing is a player who is not on the
\* attacker's team, whoever owned the tile at launch, and the attack it
\* queues targets that owner.
C25_DecidedAtLanding ==
    [][(Landing /\ isLand(execs[idx].dst))
        => LET e == execs[idx]
               o == owner[e.dst]
               queued == SubSeq(unInitExecs', Len(unInitExecs) + 1,
                                Len(unInitExecs'))
           IN  /\ Len(queued) = IF isPlayer(o) /\ ~isOnSameTeam(e.player, o)
                                THEN 1 ELSE 0
               /\ \A i \in 1 .. Len(queued) :
                     /\ queued[i].kind = "Attack"
                     /\ queued[i].player = e.player
                     /\ queued[i].target = o]_vars

\* The troops of the executions a step has queued.
RECURSIVE SumTroops(_)
SumTroops(queue) ==
    IF queue = <<>> THEN 0 ELSE Head(queue).troops + SumTroops(Tail(queue))

SeededTroops ==
    SumTroops(SubSeq(unInitExecs', Len(unInitExecs) + 1, Len(unInitExecs')))

\* C26: an init call that launches a transport deducts from the attacker's
\* pool exactly the troops the execution and its plane then hold; a tick
\* call of a transport changes no pool but the attacker's, never lowers it,
\* and returns to it and seeds into queued attacks together no more than
\* the execution holds - exactly that many when the plane lands on a land
\* tile, none in any call that is not a landing.
C26_TransportsCreateNoTroops ==
    [][/\ (InitCallOf("Transport") /\ execs'[idx].active)
            => LET f == execs'[idx]
               IN  /\ f.troops > 0
                   /\ troops' = [troops EXCEPT ![f.player] = @ - f.troops]
                   /\ units'[f.plane].troops = f.troops
       /\ TickCallOf("Transport")
            => LET e == execs[idx]
                   returned == troops'[e.player] - troops[e.player]
               IN  /\ \A p \in Players \ {e.player} : troops'[p] = troops[p]
                   /\ returned >= 0
                   /\ returned + SeededTroops <= e.troops
                   /\ (Landing /\ isLand(e.dst))
                        => returned + SeededTroops = e.troops
                   /\ ~Landing => returned + SeededTroops = 0]_vars

\* Player 1 asked for 5 troops with 3 in the pool; the plane has landed on
\* player 3's tile in this pass and the attack it queued holds the 3 troops
\* deducted at init, the pool none.
C26_Witness ==
    /\ pc = "tick"
    /\ troops[1] = 0
    /\ \E i \in 1 .. (idx - 1) :
          /\ LandedThisTick(i)
          /\ execs[i].player = 1
          /\ execs[i].troops = InitialTroops[1]
          /\ isLand(execs[i].dst)
    /\ Len(unInitExecs) = 1
    /\ unInitExecs[1].kind = "Attack"
    /\ unInitExecs[1].troops = InitialTroops[1]

\* C27: a landing leaves every tile that another player of the attacker's
\* team owns when the plane lands with that owner.
C27_TeammateTileKept ==
    [][Landing
        => \A tile \in Tiles :
              (/\ isPlayer(owner[tile])
               /\ owner[tile] # execs[idx].player
               /\ isOnSameTeam(execs[idx].player, owner[tile]))
                  => owner'[tile] = owner[tile]]_vars

\* C28: a tick call on an active AdminExecution with action unlock_research
\* leaves every research type of the tree completed for the player - with
\* startedAt = completedAt = the current tick if it was not completed
\* before, as it was otherwise - and no research in progress.
C28_UnlockCompletesEveryResearch ==
    [][(/\ TickCallOf("Admin")
        /\ execs[idx].active
        /\ execs[idx].action = "unlock_research")
        => LET p == execs[idx].player
           IN  /\ \A type \in ResearchType :
                     researches'[p][type] =
                         IF researches[p][type].completed
                         THEN researches[p][type]
                         ELSE [completed |-> TRUE, startedAt |-> ticks,
                               completedAt |-> ticks]
               /\ currentResearch'[p] = NoResearch]_vars

\* C29: a tick call on an AdminExecution with action add_troops changes no
\* pool but the player's and never lowers that one; if the execution is
\* active and has an amount, it adds min(amount, maxTroops - current) - for
\* the amount -1, maxTroops - current - when that is positive, which leaves
\* the pool at most at maxTroops; in every other case it adds nothing; and
\* it leaves the execution inactive, so that it adds on one tick only.
C29_AddTroopsCapped ==
    [][(TickCallOf("Admin") /\ execs[idx].action = "add_troops")
        => LET e == execs[idx]
               current == troops[e.player]
               available == MaxTroopsConfig - current
               toAdd == IF e.amount = -1
                        THEN available
                        ELSE Min(e.amount, available)
               added == IF e.active /\ e.hasAmount /\ toAdd > 0
                        THEN toAdd ELSE 0
           IN  /\ troops' = [troops EXCEPT ![e.player] = current + added]
               /\ troops'[e.player] >= current
               /\ added > 0 => troops'[e.player] <= MaxTroopsConfig
               /\ ~execs'[idx].active]_vars

\* The only command so far, add_troops of 5 for a player with fewer than 5
\* troops lacking, has been ticked: the pool stands at maxTroops.
C29_Witness ==
    /\ pc = "tick"
    /\ idx = 2
    /\ Len(execs) = 1
    /\ nextId = 2
    /\ execs[1].kind = "Admin"
    /\ execs[1].action = "add_troops"
    /\ execs[1].amount = 5
    /\ ~execs[1].active
    /\ MaxTroopsConfig - InitialTroops[1] < 5
    /\ troops[1] = MaxTroopsConfig

\* C30: every message the relay received from the client has been passed to
\* workerWs.send exactly once and in arrival order, or waits in
\* pendingMessages, in arrival order and behind everything sent, for the
\* worker socket to open.
C30_EveryMessageForwardedOnce ==
    /\ sent \o pendingMessages = received
    /\ pendingMessages # <<>> => workerWs = "CONNECTING"

\* C31: once one socket of the relayed pair is closed, the other is not
\* left open: the handler of the close (or of the error before it) has
\* closed it, whatever its state was at that moment - also a worker socket
\* that was still connecting when the client closed.
C31_OtherSideClosedToo ==
    /\ clientWs = "CLOSED" => workerWs # "OPEN"
    /\ workerWs = "CLOSED" => clientWs # "OPEN"

\* C32: publicLobbyIDs never holds more than one game ID, and an ID is added
\* only by the polling task whose lobby refresh returned 0, to an empty
\* publicLobbyIDs.
C32_AtMostOnePublicLobby ==
    /\ [](Cardinality(publicLobbyIDs) <= 1)
    /\ [][publicLobbyIDs' \ publicLobbyIDs # {}
            => /\ pollPc = "callback"
               /\ lobbies = 0
               /\ publicLobbyIDs = {}]_vars

\* The master has dropped its first public lobby and tracks its second.
C32_Witness ==
    /\ server = "Master"
    /\ generated = 2
    /\ publicLobbyIDs = {2}

\* The single server has dropped its first public lobby and tracks its
\* second.
C32_WitnessSingle ==
    /\ server = "Single"
    /\ generated = 2
    /\ publicLobbyIDs = {2}

\* What fetchLobbies made of the info it got for an ID.
FetchedInfo(id) == MapInfo(fetched[id])

\* C33: when fetchLobbies has returned, publicLobbyIDs holds no ID it asked
\* for whose fetch was rejected, whose lobby info - as fetchLobbies built it
\* from the answer - starts within 250 ms, or whose lobby info has as many
\* clients as its maxPlayers; and it has returned the number of IDs left.
C33_FetchLobbiesDropsStaleLobbies ==
    pollPc = "callback" =>
        /\ \A id \in DOMAIN fetched :
               \/ fetched[id].fetch = "rejected"
               \/ FetchedInfo(id).msUntilStart <= StartingSoonMs
               \/ /\ FetchedInfo(id).maxPlayers # Null
                  /\ FetchedInfo(id).maxPlayers <= FetchedInfo(id).numClients
               => id \notin publicLobbyIDs
        /\ lobbies = Cardinality(publicLobbyIDs)

\* C34: every game ID in publicLobbyIDs is eventually removed from it.
C34_EveryLobbyEventuallyRemoved ==
    \A id \in GameIDs : (id \in publicLobbyIDs) ~> (id \notin publicLobbyIDs)

C36_TerrainOfRequestedSize ==
    lastCall # <<>> =>
        /\ lastData.gameMap = GameMapOf(lastCall[2])
        /\ lastData.miniGameMap = MiniMapOf(lastCall[2])
        /\ manifests[lastData.nations] =
               IF lastCall[2] = "Normal"
               THEN NationCoordinate
               ELSE NationCoordinate \div 2

\* A double that is at least 1.0.
AtLeastOne(d) == d.e > 0 \/ (d.e = 0 /\ d.m[4] >= 1024)

\* C37: for every set of completed researches of the eight-step tree, each
\* type once, the combined damageReduction lies between 0 and 35, below 100
\* percent, and each of the six combined multipliers is at least 1.0.
C37_BonusesWithinRange ==
    combined.calculated =>
        /\ combined.bonuses.damageReduction \in 0 .. 35
        /\ combined.bonuses.damageReduction < 100
        /\ \A f \in {"attackBonus", "healthBonus", "defenseBonus",
                    "troopProductionBonus", "goldProductionBonus",
                    "buildSpeedBonus"} :
               AtLeastOne(combined.bonuses[f])

\* The bonuses of all eight researches have been combined: the damage
\* reduction stands at 35.
C37_Witness ==
    /\ combined.calculated
    /\ Len(combined.input) = 8
    /\ combined.bonuses.damageReduction = 35

\* C38: the PauseGameIntentEvents the settings modal has emitted alternate,
\* pause(true) first, so that every pause(false) undoes a pause(true) of its
\* own; and every pause(true) was emitted with the modal being shown.
C38_PausesAlternate ==
    \A i \in 1 .. Len(emitted) :
        /\ emitted[i][1] = (i % 2 = 1)
        /\ emitted[i][1] => emitted[i][2]

====
